---- MODULE Spec2Model ----
(***************************************************************************)
(* Companion Engagement Engine of nosyagent: the reflection decision       *)
(* engine (companion.py wrap_response), the configuration setters and the  *)
(* nudge scheduler (schedule_next_nudge), over the user_settings row of    *)
(* storage.py and the reminder hand-off of reminder_scheduler.py.          *)
(*                                                                         *)
(* One user (one chat_id) is modelled: every statement of the code is      *)
(* keyed by chat_id and rows of different users never meet.                *)
(* Operations are handled one after another in Spec.                       *)
(***************************************************************************)
EXTENDS Integers, Sequences, FiniteSets, TLC

----------------------------------------------------------------------------
(* Time.  datetime has microsecond resolution; the model's clock counts    *)
(* ticks, TicksPerSec of them to the second, so that a clock reading has   *)
(* a sub-second part that isoformat(microsecond=0) cuts off.               *)

TicksPerSec == 2
MaxDays == 1

Sec == TicksPerSec
Minute == 60 * Sec
Hour == 60 * Minute
Day == 24 * Hour

\* Python's None: for an Optional[str] and for an Optional[datetime]
None == "None"
NoTime == 0 - 1

\* timedelta(hours=24), companion.py:266
PAUSE_HOURS == 24
\* len(normalized.split()) < 5, companion.py:259
SHORT_TOKENS == 5
\* settings.short_reply_streak >= 3, companion.py:265
STREAK_LIMIT == 3

\* The clock readings a run visits: the start, one tick later, and one tick
\* past midnight of each later day.
Instants == {0, 1} \cup { d * Day + 1 : d \in 1..MaxDays }

----------------------------------------------------------------------------
(* Text.  A user message is its whitespace-separated tokens plus whether   *)
(* it carries leading/trailing whitespace; str.lower and str.strip(",.?!") *)
(* are tabulated on the vocabulary the model draws from.                   *)

STOP_WORDS == {"stop", "mute", "quiet"}

\* str.lower() on the vocabulary
lower(tok) ==
    CASE tok = "OK" -> "ok"
      [] tok = "Stop!" -> "stop!"
      [] tok = "MUTE." -> "mute."
      [] tok = "Plan" -> "plan"
      [] OTHER -> tok

\* str.strip(",.?!") on the (lower-cased) vocabulary: both ends are stripped
strip_punct(tok) ==
    CASE tok = "stop!" -> "stop"
      [] tok = "mute." -> "mute"
      [] tok = "?quiet" -> "quiet"
      [] tok = "ok." -> "ok"
      [] OTHER -> tok

Msg(pad, toks) == [pad |-> pad, toks |-> toks]

\* user_message.strip().lower(): the padding goes, every token is lower-cased
normalize(m) == [i \in 1..Len(m.toks) |-> lower(m.toks[i])]

\* token_set without the punctuation strip
token_set_raw(normalized) == { normalized[i] : i \in 1..Len(normalized) }

\* {token.strip(",.?!") for token in normalized.split()}
token_set(normalized) == { strip_punct(normalized[i]) : i \in 1..Len(normalized) }

----------------------------------------------------------------------------
(* Replies.  A reply is a sequence of pieces; " " is trailing whitespace,  *)
(* "\n" the line break _merge_response inserts.                            *)

RECURSIVE rstrip(_)
rstrip(s) ==
    IF s = <<>> THEN <<>>
    ELSE IF s[Len(s)] \in {" ", "\n"} THEN rstrip(SubSeq(s, 1, Len(s) - 1))
    ELSE s

\* merge_response without the right trim of the base reply
merge_response_untrimmed(base_response, reflection_block) ==
    IF base_response = <<>> THEN <<reflection_block>>
    ELSE base_response \o <<"\n", reflection_block>>

\* _merge_response
merge_response(base_response, reflection_block) ==
    LET base_clean == rstrip(base_response)
    IN  IF base_clean = <<>> THEN <<reflection_block>>
        ELSE base_clean \o <<"\n", reflection_block>>

----------------------------------------------------------------------------
(* Template Bank.  A template is its id and its two rendered lines ("" is  *)
(* a line that renders empty or is not configured).                        *)

MaxBank == 2

TemplateIds == <<"focus", "tension", "momentum", "extra", "spare">>

Template(i, blank) ==
    [id |-> TemplateIds[i],
     question |-> IF blank THEN "" ELSE TemplateIds[i] \o "?",
     stretch |-> IF blank THEN "" ELSE TemplateIds[i] \o "."]

\* a configured bank of n templates; template k (0: none) renders no line
Bank(n, k) == [i \in 1..n |-> Template(i, i = k)]

DEFAULT_TEMPLATE_SET == Bank(3, 0)

\* topic -> number of spark strings of the topic (4 topics of 3 strings)
DEFAULT_SPARKS == <<3, 3, 3, 3>>

\* json.load of the cards file ({} when the file is missing or malformed):
\* has_x tells whether the key is present, x is its value.
NoCards == [has_templates |-> FALSE, templates |-> <<>>,
            has_sparks |-> FALSE, sparks |-> <<>>]

ConfiguredBanks ==
    {<<>>, Bank(1, 0)} \cup { Bank(n, n) : n \in 2..MaxBank }

\* the cards files that matter to the templates: none, or one with a bank
CardsFiles ==
    {NoCards} \cup
    { [has_templates |-> TRUE, templates |-> t, has_sparks |-> FALSE, sparks |-> <<>>] :
        t \in ConfiguredBanks }

\* data.get("templates", DEFAULT_TEMPLATE_SET), then the emptiness fallback
load_templates(data) ==
    LET got == IF data.has_templates THEN data.templates ELSE DEFAULT_TEMPLATE_SET
    IN  IF got = <<>> THEN DEFAULT_TEMPLATE_SET ELSE got

load_sparks(data) ==
    LET got == IF data.has_sparks THEN data.sparks ELSE DEFAULT_SPARKS
    IN  IF got = <<>> THEN DEFAULT_SPARKS ELSE got

\* json.load returned a value that is not an object: a list, a string, a
\* number or null (the file holds valid JSON)
NotAnObject == [object |-> FALSE]

\* _load_cards: the sections the service holds afterwards, or the exception
\* that data.get raises on a value without that method
load_cards(data) ==
    IF data = NotAnObject
      THEN [raised |-> TRUE, templates |-> <<>>, sparks |-> <<>>]
    ELSE [raised |-> FALSE, templates |-> load_templates(data), sparks |-> load_sparks(data)]

\* index of the first template whose id is last_template_id, 0 when none
RECURSIVE find_template(_, _, _)
find_template(bank, last_template_id, idx) ==
    IF idx > Len(bank) THEN 0
    ELSE IF bank[idx].id = last_template_id THEN idx
    ELSE find_template(bank, last_template_id, idx + 1)

\* next_template staying on the template it finds instead of moving past it
next_template_same(bank, last_template_id) ==
    IF bank = <<>> THEN 0
    ELSE IF last_template_id = None \/ last_template_id = "" THEN 1
    ELSE LET idx == find_template(bank, last_template_id, 1)
         IN  IF idx = 0 THEN 1 ELSE idx

\* _next_template, as the position in the bank of the template it returns
\* (0: it returns None)
next_template(bank, last_template_id) ==
    IF bank = <<>> THEN 0
    ELSE IF last_template_id = None \/ last_template_id = "" THEN 1
    ELSE LET idx == find_template(bank, last_template_id, 1)
         IN  IF idx = 0 THEN 1
             ELSE (idx % Len(bank)) + 1

\* the candidate lines _build_reflection collects from a template, in order
reflection_elements(template) ==
    (IF template.question # "" THEN <<template.question>> ELSE <<>>)
    \o (IF template.stretch # "" THEN <<template.stretch>> ELSE <<>>)

----------------------------------------------------------------------------
(* Settings Store.  UserSettings holds datetimes (ticks); the row holds    *)
(* their ISO text, which has whole seconds only.                           *)

NoRow == [absent |-> TRUE]

\* dataclass UserSettings: the defaults of a user without a row
DefaultSettings ==
    [companion_level |-> "light",
     nudge_frequency |-> "weekly",
     quiet_hours_start |-> <<22, 0>>,
     quiet_hours_end |-> <<7, 0>>,
     last_reflection_at |-> NoTime,
     short_reply_streak |-> 0,
     reflections_paused_until |-> NoTime,
     last_template_id |-> None,
     last_nudge_at |-> NoTime]

\* value.replace(microsecond=0).isoformat(): seconds since the epoch
to_iso(value) == IF value = NoTime THEN NoTime ELSE value \div Sec

\* datetime.fromisoformat(value) if value else None
from_iso(value) == IF value = NoTime THEN NoTime ELSE value * Sec

\* get_user_settings answering a user without a row with another level
get_user_settings_standard(row) ==
    IF row = NoRow THEN [DefaultSettings EXCEPT !.companion_level = "standard"]
    ELSE [row EXCEPT !.last_reflection_at = from_iso(@),
                     !.reflections_paused_until = from_iso(@),
                     !.last_nudge_at = from_iso(@)]

\* SELECT ... WHERE chat_id = ?: UserSettings(chat_id) when there is no row,
\* else the row with its three timestamps parsed
get_user_settings(row) ==
    IF row = NoRow THEN DefaultSettings
    ELSE [row EXCEPT !.last_reflection_at = from_iso(@),
                     !.reflections_paused_until = from_iso(@),
                     !.last_nudge_at = from_iso(@)]

\* the row INSERT ... ON CONFLICT DO UPDATE leaves behind
upsert_user_settings(settings) ==
    [settings EXCEPT !.last_reflection_at = to_iso(@),
                     !.reflections_paused_until = to_iso(@),
                     !.last_nudge_at = to_iso(@)]

----------------------------------------------------------------------------
(* Reflection Decision Engine *)

\* level_is_off comparing against the upper-case spelling
level_is_off_uppercase(settings) == settings.companion_level = "OFF"

\* settings.companion_level == "off" (companion.py:235)
level_is_off(settings) == settings.companion_level = "off"

\* STOP_WORDS.intersection(tokens) (companion.py:243)
stop_requested(tokens) == STOP_WORDS \cap tokens # {}

\* reflections_paused with the comparison turned around
reflections_paused_before(settings, t) ==
    settings.reflections_paused_until # NoTime /\ settings.reflections_paused_until < t

\* reflections_paused_until and reflections_paused_until > now (companion.py:248)
reflections_paused(settings, t) ==
    settings.reflections_paused_until # NoTime /\ settings.reflections_paused_until > t

\* repeats_last comparing with the history entry as it was typed
repeats_last_as_typed(recent_messages, normalized) ==
    /\ recent_messages # <<>>
    /\ recent_messages[Len(recent_messages)].toks # <<>>
    /\ recent_messages[Len(recent_messages)].toks = normalized

\* the last user message of the history equals the normalized message
\* (companion.py:252-254)
repeats_last(recent_messages, normalized) ==
    /\ recent_messages # <<>>
    /\ normalize(recent_messages[Len(recent_messages)]) # <<>>
    /\ normalize(recent_messages[Len(recent_messages)]) = normalized

\* counted_streak without the reset on a message of 5 tokens or more
counted_streak_kept(settings, normalized) ==
    IF Len(normalized) < SHORT_TOKENS THEN settings.short_reply_streak + 1
    ELSE settings.short_reply_streak

\* the streak after the message was counted (companion.py:259-263)
counted_streak(settings, normalized) ==
    IF Len(normalized) < SHORT_TOKENS THEN settings.short_reply_streak + 1 ELSE 0

\* _should_reflect counting the message before the stop-word, pause and
\* repeat guards rather than after them
should_reflect_counts_first(user_message, recent_messages, settings, t) ==
    LET normalized == normalize(user_message)
        streak == counted_streak(settings, normalized)
        counted == [settings EXCEPT !.short_reply_streak = streak]
    IN  IF level_is_off(settings)
          THEN [decision |-> FALSE, settings |-> settings, guard |-> "off"]
        ELSE IF normalized = <<>>
          THEN [decision |-> FALSE, settings |-> settings, guard |-> "empty"]
        ELSE IF stop_requested(token_set(normalized))
          THEN [decision |-> FALSE, settings |-> counted, guard |-> "stop"]
        ELSE IF reflections_paused(settings, t)
          THEN [decision |-> FALSE, settings |-> counted, guard |-> "paused"]
        ELSE IF repeats_last(recent_messages, normalized)
          THEN [decision |-> FALSE, settings |-> counted, guard |-> "repeat"]
        ELSE IF streak >= STREAK_LIMIT
          THEN [decision |-> FALSE,
                settings |-> [settings EXCEPT
                                !.short_reply_streak = streak,
                                !.reflections_paused_until = t + PAUSE_HOURS * Hour],
                guard |-> "throttle"]
        ELSE [decision |-> TRUE,
              settings |-> counted,
              guard |-> "pass"]

\* _should_reflect: the decision, the settings object as the call leaves it
\* (it is mutated in place) and the guard that decided
should_reflect(user_message, recent_messages, settings, t) ==
    LET normalized == normalize(user_message)
        streak == counted_streak(settings, normalized)
    IN  IF level_is_off(settings)
          THEN [decision |-> FALSE, settings |-> settings, guard |-> "off"]
        ELSE IF normalized = <<>>
          THEN [decision |-> FALSE, settings |-> settings, guard |-> "empty"]
        ELSE IF stop_requested(token_set(normalized))
          THEN [decision |-> FALSE, settings |-> settings, guard |-> "stop"]
        ELSE IF reflections_paused(settings, t)
          THEN [decision |-> FALSE, settings |-> settings, guard |-> "paused"]
        ELSE IF repeats_last(recent_messages, normalized)
          THEN [decision |-> FALSE, settings |-> settings, guard |-> "repeat"]
        ELSE IF streak >= STREAK_LIMIT
          THEN [decision |-> FALSE,
                settings |-> [settings EXCEPT
                                !.short_reply_streak = streak,
                                !.reflections_paused_until = t + PAUSE_HOURS * Hour],
                guard |-> "throttle"]
        ELSE [decision |-> TRUE,
              settings |-> [settings EXCEPT !.short_reply_streak = streak],
              guard |-> "pass"]

\* reflected_settings without the assignment of last_template_id
reflected_settings_stale_id(settings, template_id, t) ==
    [settings EXCEPT !.last_reflection_at = t,
                     !.reflections_paused_until = NoTime,
                     !.short_reply_streak = 0]

\* reflected_settings without the reset of the streak
reflected_settings_keeps_streak(settings, template_id, t) ==
    [settings EXCEPT !.last_reflection_at = t,
                     !.last_template_id = template_id,
                     !.reflections_paused_until = NoTime]

\* the settings wrap_response writes once a reflection was built
reflected_settings(settings, template_id, t) ==
    [settings EXCEPT !.last_reflection_at = t,
                     !.last_template_id = template_id,
                     !.reflections_paused_until = NoTime,
                     !.short_reply_streak = 0]

\* wrap_response without the try around record_companion_metric: the insert's
\* failure leaves the call after the settings were written, and the caller
\* falls back to the base reply
wrap_response_metric_raises(is_enabled, bank, row, user_message, base_response, recent_messages, t, choice, metric_ok) ==
    LET settings == get_user_settings(row)
        d == should_reflect(user_message, recent_messages, settings, t)
        idx == next_template(bank, d.settings.last_template_id)
        elements == IF idx = 0 THEN <<>> ELSE reflection_elements(bank[idx])
        text == elements[((choice - 1) % Len(elements)) + 1]
    IN  IF ~is_enabled
          THEN [reply |-> base_response, row |-> row, upserts |-> 0,
                metric |-> None, path |-> "disabled"]
        ELSE IF ~d.decision
          THEN [reply |-> base_response, row |-> upsert_user_settings(d.settings),
                upserts |-> 1, metric |-> None, path |-> d.guard]
        ELSE IF elements = <<>>
          THEN [reply |-> base_response, row |-> upsert_user_settings(d.settings),
                upserts |-> 1, metric |-> None, path |-> "norender"]
        ELSE [reply |-> IF metric_ok THEN merge_response(base_response, text)
                        ELSE base_response,
              row |-> upsert_user_settings(
                        reflected_settings(d.settings, bank[idx].id, t)),
              upserts |-> 1,
              metric |-> IF metric_ok THEN bank[idx].id ELSE None,
              path |-> IF metric_ok THEN "reflected" ELSE "raised"]

\* wrap_response returning from a suppression path without writing the settings
wrap_response_skips_write(is_enabled, bank, row, user_message, base_response, recent_messages, t, choice, metric_ok) ==
    LET settings == get_user_settings(row)
        d == should_reflect(user_message, recent_messages, settings, t)
        idx == next_template(bank, d.settings.last_template_id)
        elements == IF idx = 0 THEN <<>> ELSE reflection_elements(bank[idx])
        text == elements[((choice - 1) % Len(elements)) + 1]
    IN  IF ~is_enabled
          THEN [reply |-> base_response, row |-> row, upserts |-> 0,
                metric |-> None, path |-> "disabled"]
        ELSE IF ~d.decision
          THEN [reply |-> base_response, row |-> row,
                upserts |-> 0, metric |-> None, path |-> d.guard]
        ELSE IF elements = <<>>
          THEN [reply |-> base_response, row |-> upsert_user_settings(d.settings),
                upserts |-> 1, metric |-> None, path |-> "norender"]
        ELSE [reply |-> merge_response(base_response, text),
              row |-> upsert_user_settings(
                        reflected_settings(d.settings, bank[idx].id, t)),
              upserts |-> 1,
              metric |-> IF metric_ok THEN bank[idx].id ELSE None,
              path |-> "reflected"]

\* wrap_response: the reply, the row after the call, the number of settings
\* upserts, the template_id of the metric row written ("None": no row) and the
\* path taken.  choice indexes random.choice; metric_ok is whether
\* record_companion_metric succeeds.
wrap_response(is_enabled, bank, row, user_message, base_response, recent_messages, t, choice, metric_ok) ==
    LET settings == get_user_settings(row)
        d == should_reflect(user_message, recent_messages, settings, t)
        idx == next_template(bank, d.settings.last_template_id)
        elements == IF idx = 0 THEN <<>> ELSE reflection_elements(bank[idx])
        text == elements[((choice - 1) % Len(elements)) + 1]
    IN  IF ~is_enabled
          THEN [reply |-> base_response, row |-> row, upserts |-> 0,
                metric |-> None, path |-> "disabled"]
        ELSE IF ~d.decision
          THEN [reply |-> base_response, row |-> upsert_user_settings(d.settings),
                upserts |-> 1, metric |-> None, path |-> d.guard]
        ELSE IF elements = <<>>
          THEN [reply |-> base_response, row |-> upsert_user_settings(d.settings),
                upserts |-> 1, metric |-> None, path |-> "norender"]
        ELSE [reply |-> merge_response(base_response, text),
              row |-> upsert_user_settings(
                        reflected_settings(d.settings, bank[idx].id, t)),
              upserts |-> 1,
              metric |-> IF metric_ok THEN bank[idx].id ELSE None,
              path |-> "reflected"]

\* process_message without the try around the companion call: the failure
\* reaches the outer handler, which answers with its apology
process_message_unguarded(is_enabled, bank, row, user_message, response, recent_messages, t, choice, metric_ok, fault) ==
    LET out == wrap_response(is_enabled, bank, row, user_message, response,
                             recent_messages, t, choice, metric_ok)
        raises == /\ is_enabled
                  /\ \/ fault \in {"read", "write"}
                     \/ fault = "render" /\ out.path \in {"norender", "reflected"}
    IN  IF raises
          THEN [reply |-> <<"I'm having trouble right now.">>, row |-> row, upserts |-> 0,
                metric |-> None, path |-> "raised"]
        ELSE out

\* AIAgent.process_message from the companion call on: the reply handed to the
\* user and the row after it.  fault names the step of wrap_response that
\* raises: "read" (get_user_settings), "write" (upsert_user_settings),
\* "render" (_build_reflection), "none".
process_message(is_enabled, bank, row, user_message, response, recent_messages, t, choice, metric_ok, fault) ==
    LET out == wrap_response(is_enabled, bank, row, user_message, response,
                             recent_messages, t, choice, metric_ok)
        raises == /\ is_enabled
                  /\ \/ fault \in {"read", "write"}
                     \/ fault = "render" /\ out.path \in {"norender", "reflected"}
    IN  IF raises
          THEN [reply |-> response, row |-> row, upserts |-> 0,
                metric |-> None, path |-> "raised"]
        ELSE out

(* LLM call.  One attempt is one pass of the retry loop: the request, the
   tool calls it asks for and the follow-up requests; any exception in the
   pass fails the attempt.  failures is the number of attempts that fail
   before one succeeds. *)

CLAUDE_MAX_RETRIES == 3
CLAUDE_BASE_DELAY == 1

\* what the outer handler of process_message answers with
FALLBACK_REPLY == <<"I'm having trouble right now. Could you try asking again?">>

\* the retry loop with a test for the last attempt that no attempt passes
RECURSIVE call_claude_with_tools_never_raises(_, _, _)
call_claude_with_tools_never_raises(failures, attempt, waits) ==
    IF attempt >= CLAUDE_MAX_RETRIES
      THEN [raised |-> FALSE, text |-> <<>>, attempts |-> attempt, waits |-> waits]
    ELSE IF attempt < failures
      THEN call_claude_with_tools_never_raises(failures, attempt + 1,
                Append(waits, CLAUDE_BASE_DELAY * Sec * (2 ^ attempt)))
    ELSE [raised |-> FALSE, text |-> <<"reply">>, attempts |-> attempt + 1, waits |-> waits]

\* _call_claude_with_tools from attempt on: for attempt in range(max_retries),
\* return on success, raise on the failure of the last attempt, else sleep
\* base_delay * 2 ** attempt and go round; waits are the sleeps so far, in ticks
RECURSIVE call_claude_with_tools(_, _, _)
call_claude_with_tools(failures, attempt, waits) ==
    IF attempt >= CLAUDE_MAX_RETRIES
      THEN [raised |-> FALSE, text |-> <<>>, attempts |-> attempt, waits |-> waits]
    ELSE IF attempt < failures
      THEN IF attempt = CLAUDE_MAX_RETRIES - 1
             THEN [raised |-> TRUE, text |-> <<>>, attempts |-> attempt + 1, waits |-> waits]
           ELSE call_claude_with_tools(failures, attempt + 1,
                    Append(waits, CLAUDE_BASE_DELAY * Sec * (2 ^ attempt)))
    ELSE [raised |-> FALSE, text |-> <<"reply">>, attempts |-> attempt + 1, waits |-> waits]

\* the time the sleeps of one call take
RECURSIVE Slept(_)
Slept(waits) == IF waits = <<>> THEN 0 ELSE Head(waits) + Slept(Tail(waits))

\* ON CONFLICT(chat_id) DO UPDATE SET with a column missing from the list
on_conflict_update_partial(row, excluded) ==
    IF row = NoRow THEN excluded
    ELSE [row EXCEPT !.companion_level = excluded.companion_level,
                     !.nudge_frequency = excluded.nudge_frequency,
                     !.quiet_hours_start = excluded.quiet_hours_start,
                     !.quiet_hours_end = excluded.quiet_hours_end,
                     !.last_reflection_at = excluded.last_reflection_at,
                     !.reflections_paused_until = excluded.reflections_paused_until,
                     !.last_template_id = excluded.last_template_id,
                     !.last_nudge_at = excluded.last_nudge_at]

\* the one statement of upsert_user_settings against the stored row: INSERT
\* when the user has no row, else UPDATE SET column = excluded.column for the
\* columns the statement lists
on_conflict_update(row, excluded) ==
    IF row = NoRow THEN excluded
    ELSE [row EXCEPT !.companion_level = excluded.companion_level,
                     !.nudge_frequency = excluded.nudge_frequency,
                     !.quiet_hours_start = excluded.quiet_hours_start,
                     !.quiet_hours_end = excluded.quiet_hours_end,
                     !.last_reflection_at = excluded.last_reflection_at,
                     !.short_reply_streak = excluded.short_reply_streak,
                     !.reflections_paused_until = excluded.reflections_paused_until,
                     !.last_template_id = excluded.last_template_id,
                     !.last_nudge_at = excluded.last_nudge_at]

----------------------------------------------------------------------------
(* Configuration setters *)

LEVELS == {"off", "light", "standard"}
FREQUENCIES == {"off", "weekly", "standard"}

\* str.lower() on the setters' arguments
lower_arg(v) ==
    CASE v = "OFF" -> "off"
      [] v = "Weekly" -> "weekly"
      [] OTHER -> v

\* validate_hhmm with both ranges one too wide
validate_hhmm_loose(value) == value[1] \in 0..24 /\ value[2] \in 0..60

\* datetime.strptime(value, "%H:%M") accepts the value
validate_hhmm(value) == value[1] \in 0..23 /\ value[2] \in 0..59

\* each setter: whether it raised ValueError, and the row after the call
set_companion_level(row, level) ==
    IF lower_arg(level) \notin LEVELS
      THEN [raised |-> TRUE, row |-> row]
    ELSE [raised |-> FALSE,
          row |-> upsert_user_settings(
                    [get_user_settings(row) EXCEPT !.companion_level = lower_arg(level)])]

\* set_quiet_hours writing a fresh settings object instead of the one it read
set_quiet_hours_fresh(row, start, end) ==
    IF ~validate_hhmm(start) \/ ~validate_hhmm(end)
      THEN [raised |-> TRUE, row |-> row]
    ELSE [raised |-> FALSE,
          row |-> upsert_user_settings(
                    [DefaultSettings EXCEPT !.quiet_hours_start = start,
                                            !.quiet_hours_end = end])]

\* set_quiet_hours storing the two values in each other's column
set_quiet_hours_swapped(row, start, end) ==
    IF ~validate_hhmm(start) \/ ~validate_hhmm(end)
      THEN [raised |-> TRUE, row |-> row]
    ELSE [raised |-> FALSE,
          row |-> upsert_user_settings(
                    [get_user_settings(row) EXCEPT !.quiet_hours_start = end,
                                                   !.quiet_hours_end = start])]

set_quiet_hours(row, start, end) ==
    IF ~validate_hhmm(start) \/ ~validate_hhmm(end)
      THEN [raised |-> TRUE, row |-> row]
    ELSE [raised |-> FALSE,
          row |-> upsert_user_settings(
                    [get_user_settings(row) EXCEPT !.quiet_hours_start = start,
                                                   !.quiet_hours_end = end])]

set_nudge_frequency(row, frequency) ==
    IF lower_arg(frequency) \notin FREQUENCIES
      THEN [raised |-> TRUE, row |-> row]
    ELSE [raised |-> FALSE,
          row |-> upsert_user_settings(
                    [get_user_settings(row) EXCEPT !.nudge_frequency = lower_arg(frequency)])]

----------------------------------------------------------------------------
(* Nudge Scheduler *)

\* timedelta(days=7) and timedelta(days=3), companion.py:352-354
WEEKLY_DAYS == 7
STANDARD_DAYS == 3
\* candidate += timedelta(minutes=60), companion.py:359
ANCHOR_MINUTES == 60
\* candidate - now > timedelta(days=2), companion.py:363
SAFETY_DAYS == 2

\* datetime.strptime(value, "%H:%M").time(), as ticks since midnight
parse_hhmm(value) == value[1] * Hour + value[2] * Minute

\* candidate.time()
time_of(candidate) == candidate % Day

\* is_quiet_time without the branch for a window that wraps past midnight
is_quiet_time_no_wrap(current, start, end) ==
    start <= current /\ current < end

\* _is_quiet_time, on times of day (companion.py:372-375)
is_quiet_time(current, start, end) ==
    IF start < end THEN start <= current /\ current < end
    ELSE current >= start \/ current < end

is_after_now(candidate, t) == candidate > t + Minute

\* the while loop returning, at the break, the candidate it had before the
\* last step
RECURSIVE advance_candidate_returns_previous(_, _, _, _)
advance_candidate_returns_previous(candidate, t, quiet_start, quiet_end) ==
    IF is_after_now(candidate, t) /\ ~is_quiet_time(time_of(candidate), quiet_start, quiet_end)
      THEN candidate
    ELSE LET later == candidate + Hour
         IN  IF later - t > SAFETY_DAYS * Day THEN candidate
             ELSE advance_candidate_returns_previous(later, t, quiet_start, quiet_end)

\* the while loop of _compute_next_nudge_time
RECURSIVE advance_candidate(_, _, _, _)
advance_candidate(candidate, t, quiet_start, quiet_end) ==
    IF is_after_now(candidate, t) /\ ~is_quiet_time(time_of(candidate), quiet_start, quiet_end)
      THEN candidate
    ELSE LET later == candidate + Hour
         IN  IF later - t > SAFETY_DAYS * Day THEN later
             ELSE advance_candidate(later, t, quiet_start, quiet_end)

\* _compute_next_nudge_time without .replace(second=0, microsecond=0)
compute_next_nudge_time_keeps_seconds(settings, t) ==
    LET delta == IF settings.nudge_frequency = "standard" THEN STANDARD_DAYS * Day
                 ELSE WEEKLY_DAYS * Day
        candidate == t + delta
        quiet_start == parse_hhmm(settings.quiet_hours_start)
        quiet_end == parse_hhmm(settings.quiet_hours_end)
        anchored == (candidate - (candidate % Day)) + quiet_end + (candidate % Minute)
    IN  advance_candidate(anchored + ANCHOR_MINUTES * Minute, t, quiet_start, quiet_end)

\* _compute_next_nudge_time: now + delta cut to the whole minute, its hour and
\* minute replaced by those of quiet_end (replace(hour, minute) keeps the
\* seconds), plus 60 minutes, then the loop
compute_next_nudge_time(settings, t) ==
    LET delta == IF settings.nudge_frequency = "standard" THEN STANDARD_DAYS * Day
                 ELSE WEEKLY_DAYS * Day
        whole_minute == (t + delta) - ((t + delta) % Minute)
        quiet_start == parse_hhmm(settings.quiet_hours_start)
        quiet_end == parse_hhmm(settings.quiet_hours_end)
        anchored == (whole_minute - (whole_minute % Day)) + quiet_end + (whole_minute % Minute)
    IN  advance_candidate(anchored + ANCHOR_MINUTES * Minute, t, quiet_start, quiet_end)

\* _pick_spark for the topic random.choice drew: "" stands for None
pick_spark(spark_topics, topic) ==
    IF spark_topics = <<>> THEN ""
    ELSE IF spark_topics[topic] = 0 THEN ""
    ELSE "spark"

\* schedule_reminder reporting success although connect or enqueue_job raised
schedule_reminder_accepts(table, queue, message, scheduled_time, t, fault) ==
    LET stored == Append(table, [message |-> message,
                                 scheduled_time |-> scheduled_time,
                                 delivered |-> FALSE])
        delay == scheduled_time - t
        delay_seconds == IF 2 * delay < Sec THEN Sec ELSE delay
    IN  IF fault = "store" THEN [ok |-> FALSE, table |-> table, queue |-> queue]
        ELSE IF fault = "queue" THEN [ok |-> TRUE, table |-> stored, queue |-> queue]
        ELSE [ok |-> TRUE, table |-> stored,
              queue |-> queue \cup {[reminder_id |-> Len(table) + 1,
                                     run_at |-> t + delay_seconds]}]

\* schedule_reminder handing the computed delay to the queue as it is
schedule_reminder_no_floor(table, queue, message, scheduled_time, t, fault) ==
    LET stored == Append(table, [message |-> message,
                                 scheduled_time |-> scheduled_time,
                                 delivered |-> FALSE])
    IN  IF fault = "store" THEN [ok |-> FALSE, table |-> table, queue |-> queue]
        ELSE IF fault = "queue" THEN [ok |-> FALSE, table |-> stored, queue |-> queue]
        ELSE [ok |-> TRUE, table |-> stored,
              queue |-> queue \cup {[reminder_id |-> Len(table) + 1,
                                     run_at |-> scheduled_time]}]

\* ReminderScheduler.schedule_reminder: the reminders table and the queue after
\* the call and the boolean it returns.  fault names the step that raises:
\* "store" (store_reminder), "queue" (connect or enqueue_job), "none".
schedule_reminder(table, queue, message, scheduled_time, t, fault) ==
    LET reminder_id == Len(table) + 1
        stored == Append(table, [message |-> message,
                                 scheduled_time |-> scheduled_time,
                                 delivered |-> FALSE])
        delay == scheduled_time - t
        delay_seconds == IF 2 * delay < Sec THEN Sec ELSE delay
    IN  IF fault = "store" THEN [ok |-> FALSE, table |-> table, queue |-> queue]
        ELSE IF fault = "queue" THEN [ok |-> FALSE, table |-> stored, queue |-> queue]
        ELSE [ok |-> TRUE, table |-> stored,
              queue |-> queue \cup {[reminder_id |-> reminder_id,
                                     run_at |-> t + delay_seconds]}]

\* nudges_off looking at the companion level only
nudges_off_level_only(is_enabled, settings) ==
    ~is_enabled \/ settings.companion_level = "off"

\* not self.enabled or companion_level == "off" or nudge_frequency == "off"
\* (companion.py:184)
nudges_off(is_enabled, settings) ==
    ~is_enabled \/ settings.companion_level = "off" \/ settings.nudge_frequency = "off"

\* nudge_pending with the comparison turned around
nudge_pending_past(settings, t) ==
    settings.last_nudge_at # NoTime /\ settings.last_nudge_at < t

\* settings.last_nudge_at and settings.last_nudge_at > now (companion.py:187)
nudge_pending(settings, t) ==
    settings.last_nudge_at # NoTime /\ settings.last_nudge_at > t

\* schedule_next_nudge: the timestamp returned (NoTime: None), the row, the
\* reminders table and the queue after the call, and the number of upserts
schedule_next_nudge(is_enabled, spark_topics, row, table, queue, t, topic, fault) ==
    LET settings == get_user_settings(row)
        target_time == compute_next_nudge_time(settings, t)
        spark == pick_spark(spark_topics, topic)
        handoff == schedule_reminder(table, queue,
                                     "Spark: " \o spark \o " Reply stop to mute.",
                                     target_time, t, fault)
        unchanged == [row |-> row, table |-> table, queue |-> queue, upserts |-> 0]
    IN  IF nudges_off(is_enabled, settings)
          THEN [result |-> NoTime, path |-> "off"] @@ unchanged
        ELSE IF nudge_pending(settings, t)
          THEN [result |-> settings.last_nudge_at, path |-> "pending"] @@ unchanged
        ELSE IF spark = ""
          THEN [result |-> NoTime, path |-> "nospark"] @@ unchanged
        ELSE IF ~handoff.ok
          THEN [result |-> NoTime, path |-> "rejected", row |-> row,
                table |-> handoff.table, queue |-> handoff.queue, upserts |-> 0]
        ELSE [result |-> target_time, path |-> "scheduled",
              row |-> upsert_user_settings([settings EXCEPT !.last_nudge_at = target_time]),
              table |-> handoff.table, queue |-> handoff.queue, upserts |-> 1]

----------------------------------------------------------------------------
(* Configuration commands *)

\* the part of the status reply both commands build after the setter returned:
\* response, plus " Next spark queued for ..." if schedule_next_nudge returned
\* a time.  fault "settings" makes schedule_next_nudge raise while it reads the
\* settings; nothing in the handler catches that, and no reply is sent.
command_reply(response, setting, set, is_enabled, spark_topics, table, queue, t, topic, fault) ==
    LET next == schedule_next_nudge(is_enabled, spark_topics, set.row, table, queue, t, topic, fault)
        untouched == [row |-> set.row, table |-> table, queue |-> queue, result |-> NoTime]
    IN  IF set.raised
          THEN [reply |-> <<"Usage">>, path |-> "usage"] @@ untouched
        ELSE IF setting = "off"
          THEN [reply |-> response, path |-> "off"] @@ untouched
        ELSE IF fault = "settings"
          THEN [reply |-> <<>>, path |-> "raised"] @@ untouched
        ELSE [reply |-> IF next.result # NoTime
                          THEN response \o <<" Next spark queued for ", "%a %H:%M UTC">>
                        ELSE response,
              path |-> IF next.result # NoTime THEN "queued" ELSE "silent",
              row |-> next.row, table |-> next.table, queue |-> next.queue,
              result |-> next.result]

\* /mode <level>
mode_command(is_enabled, spark_topics, row, table, queue, t, topic, fault, arg) ==
    LET set == set_companion_level(row, lower_arg(arg))
        level == get_user_settings(set.row).companion_level
    IN  command_reply(<<"Companion mode set to ", level, ".">>, level, set,
                      is_enabled, spark_topics, table, queue, t, topic, fault)

\* /nudge <choice>, where "on" stands for "weekly"
nudge_command(is_enabled, spark_topics, row, table, queue, t, topic, fault, arg) ==
    LET choice == IF lower_arg(arg) = "on" THEN "weekly" ELSE lower_arg(arg)
        set == set_nudge_frequency(row, choice)
        frequency == get_user_settings(set.row).nudge_frequency
    IN  command_reply(<<"Nudges set to ", frequency, ".">>, frequency, set,
                      is_enabled, spark_topics, table, queue, t, topic, fault)

----------------------------------------------------------------------------
(* Webhook deduplication *)

\* CACHE_EXPIRY_SECONDS, nosy_bot.py:135
CACHE_EXPIRY_SECONDS == 3600

\* how many different update_ids arrive, and how often one is dispatched
\* before the model stops delivering it
MaxUpdates == 2
MaxDispatches == 2
UpdateIds == 1..MaxUpdates

\* processed_updates = {}
NoUpdates == [u \in UpdateIds |-> NoTime]

\* del processed_updates[key] for every key older than the expiry
clean_expired_updates(cache, t) ==
    [u \in UpdateIds |->
       IF cache[u] # NoTime /\ t - cache[u] > CACHE_EXPIRY_SECONDS * Sec THEN NoTime
       ELSE cache[u]]

\* update_id in processed_updates, after the cleaning
is_duplicate_update(cache, update_id, t) ==
    clean_expired_updates(cache, t)[update_id] # NoTime

\* mark_update_processed that records nothing
mark_update_processed_forgets(cache, update_id, t) == cache

\* processed_updates[update_id] = time.time()
mark_update_processed(cache, update_id, t) == [cache EXCEPT ![update_id] = t]

\* the head of webhook(): whether the delivery is a duplicate, and the cache
\* afterwards
webhook(cache, update_id, t) ==
    IF is_duplicate_update(cache, update_id, t)
      THEN [duplicate |-> TRUE, cache |-> clean_expired_updates(cache, t)]
    ELSE [duplicate |-> FALSE,
          cache |-> mark_update_processed(clean_expired_updates(cache, t), update_id, t)]

----------------------------------------------------------------------------
(* Delivery worker *)

\* UPDATE reminders SET delivered = TRUE WHERE id = ?
mark_reminder_delivered(table, reminder_id) ==
    [i \in 1..Len(table) |->
       IF i = reminder_id THEN [table[i] EXCEPT !.delivered = TRUE] ELSE table[i]]

\* send_reminder: the reminders table and the recipient's inbox after the job
\* ran, and whether the task raised.  fault names what goes wrong: "storage"
\* (mark_reminder_delivered raises), "channel" (the Telegram call fails or
\* answers with an error, which is logged), "none".
send_reminder(table, received, reminder_id, fault) ==
    IF fault = "storage"
      THEN [raised |-> TRUE, table |-> table, inbox |-> received]
    ELSE [raised |-> FALSE,
          table |-> mark_reminder_delivered(table, reminder_id),
          inbox |-> IF fault = "channel" THEN received ELSE received \cup {reminder_id}]

----------------------------------------------------------------------------
(* State *)

VARIABLES
    now,            \* the clock (datetime.utcnow()), in ticks
    enabled,        \* CompanionService.enabled
    templates,      \* CompanionService.templates
    sparks,         \* CompanionService.sparks
    user_settings,  \* the user's row of table user_settings, or NoRow
    reminders,      \* table reminders
    jobs,           \* the deferred jobs in the queue
    inbox,          \* the reminder ids the delivery channel has taken
    pending,        \* the calls in progress, between two of their suspension points
    processed_updates,  \* the webhook's cache: update_id -> time of receipt
    deliveries,     \* per update_id: what an observer of the webhook has counted
    call            \* the last operation: which one, the path it took, what it did

vars == <<now, enabled, templates, sparks, user_settings, reminders, jobs, inbox, pending,
          processed_updates, deliveries, call>>

\* how many consider() calls of the user can be in progress at once
MaxCalls == 2
Calls == 1..MaxCalls

\* a call that is not in progress
Idle == [idle |-> TRUE]

MaxReminders == 1

\* for one update_id: when it was first received, ever and by the running
\* process (NoTime: never); how often it was dispatched to the handlers within
\* CACHE_EXPIRY_SECONDS of that first receipt, in all and by the running
\* process; whether the processing of a delivery of it has failed
NoDeliveries ==
    [first |-> NoTime, count |-> 0, run_first |-> NoTime, run_count |-> 0, failed |-> FALSE]

\* the count after a dispatch at time t
Counted(first, count, t) ==
    IF first = NoTime \/ t - first <= CACHE_EXPIRY_SECONDS * Sec THEN count + 1 ELSE count

\* What an observer notes of a message as it arrives, in the words of the
\* specification: no token at all; a token that, lower-cased and with trailing
\* punctuation stripped, is a stop word; equal to the preceding user message
\* after trimming and case-folding; fewer than 5 tokens.
strip_trailing(tok) ==
    CASE tok = "stop!" -> "stop"
      [] tok = "mute." -> "mute"
      [] tok = "ok." -> "ok"
      [] OTHER -> tok

IsEmpty(m) == Len(m.toks) = 0
HasStopWord(m) ==
    \E i \in 1..Len(m.toks) : strip_trailing(lower(m.toks[i])) \in {"stop", "mute", "quiet"}
IsRepeat(m, r) ==
    /\ Len(r) > 0
    /\ Len(m.toks) > 0
    /\ Len(r[Len(r)].toks) = Len(m.toks)
    /\ \A i \in 1..Len(m.toks) : lower(r[Len(r)].toks[i]) = lower(m.toks[i])
IsShort(m) == Len(m.toks) < 5
\* the message passes the guards that come before the throttle
IsEligible(m, r) == ~IsEmpty(m) /\ ~HasStopWord(m) /\ ~IsRepeat(m, r)

\* the stored pause as the call finds it
PauseOf(row, t) ==
    IF row = NoRow THEN "none"
    ELSE IF row.reflections_paused_until = NoTime THEN "none"
    ELSE IF row.reflections_paused_until * Sec > t THEN "active"
    ELSE "passed"

LevelOf(row) == IF row = NoRow THEN "light" ELSE row.companion_level
FrequencyOf(row) == IF row = NoRow THEN "weekly" ELSE row.nudge_frequency
StreakOf(row) == IF row = NoRow THEN 0 ELSE row.short_reply_streak
PausedUntilOf(row) == IF row = NoRow THEN NoTime ELSE row.reflections_paused_until
TemplateIdOf(row) == IF row = NoRow THEN None ELSE row.last_template_id
ReflectionAtOf(row) == IF row = NoRow THEN NoTime ELSE row.last_reflection_at
NudgeAtOf(row) == IF row = NoRow THEN NoTime ELSE row.last_nudge_at

NoCall ==
    [op |-> "none", path |-> "", upserts |-> 0, reflected |-> FALSE,
     metric |-> None, result |-> NoTime, raised |-> FALSE,
     empty |-> FALSE, stop |-> FALSE, repeat |-> FALSE, short |-> FALSE,
     pause |-> "none", shorts |-> 0, status |-> <<>>,
     written |-> NoRow, replaced |-> NoRow, stale |-> FALSE,
     failures |-> 0, attempts |-> 0, waits |-> <<>>, stored |-> FALSE]

\* how many consider() calls in a row, this one included, brought a short
\* eligible message to a user whose companion is on and not paused, the first
\* of them finding short_reply_streak = 0; the count starts over after three
ShortsAfter(m, r) ==
    LET qualifies == /\ enabled
                     /\ LevelOf(user_settings) # "off"
                     /\ PauseOf(user_settings, now) # "active"
                     /\ IsEligible(m, r)
                     /\ IsShort(m)
        before == IF call.op = "consider" /\ call.shorts < 3 THEN call.shorts ELSE 0
    IN  IF ~qualifies THEN 0
        ELSE IF before = 0 THEN (IF StreakOf(user_settings) = 0 THEN 1 ELSE 0)
        ELSE before + 1

\* the values random.choice(elements) may draw from, as positions
Choices(bank, row) ==
    LET idx == next_template(bank, get_user_settings(row).last_template_id)
        n == IF idx = 0 THEN 0 ELSE Len(reflection_elements(bank[idx]))
    IN  1..(IF n = 0 THEN 1 ELSE n)

\* the topics random.choice(list(self.sparks.keys())) may draw
Topics == 1..(IF sparks = <<>> THEN 1 ELSE Len(sparks))

\* CompanionService.__init__ over an empty database
Construct(files) ==
    /\ now = 0
    /\ \E is_enabled \in BOOLEAN, data \in files :
          /\ enabled = is_enabled
          /\ templates = IF is_enabled THEN load_templates(data) ELSE <<>>
          /\ sparks = IF is_enabled THEN load_sparks(data) ELSE <<>>
    /\ user_settings = NoRow
    /\ reminders = <<>>
    /\ jobs = {}
    /\ inbox = {}
    /\ pending = [c \in Calls |-> Idle]
    /\ processed_updates = NoUpdates
    /\ deliveries = [u \in UpdateIds |-> NoDeliveries]
    /\ call = NoCall

\* the process is started again over the same database and queue
Restart(files) ==
    /\ \E is_enabled \in BOOLEAN, data \in files :
        \E cards \in {IF is_enabled THEN load_cards(data)
                      ELSE [raised |-> FALSE, templates |-> <<>>, sparks |-> <<>>]} :
          /\ enabled' = is_enabled
          /\ templates' = cards.templates
          /\ sparks' = cards.sparks
          /\ call' = [NoCall EXCEPT !.op = "restart", !.raised = cards.raised]
    /\ UNCHANGED <<now, user_settings, reminders, jobs, inbox>>
    /\ pending' = [c \in Calls |-> Idle]
    /\ processed_updates' = NoUpdates
    /\ deliveries' = [u \in UpdateIds |-> [deliveries[u] EXCEPT !.run_count = 0]]

\* time passes between two operations
Tick(instants) ==
    /\ \E t \in instants : t > now /\ now' = t
    /\ call' = [NoCall EXCEPT !.op = "tick"]
    /\ UNCHANGED <<processed_updates, deliveries, pending, enabled, templates, sparks, user_settings, reminders, jobs, inbox>>

\* the clock stops where one more exhausted LLM call would still fit twice
LlmHorizon == 2 * CLAUDE_BASE_DELAY * Sec * (2 ^ CLAUDE_MAX_RETRIES)

\* consider(): one wrap_response call, made by process_message.  random.choice
\* and the outcome of the metric insert are drawn only where the call reaches
\* them.
Consider(messages, recents, replies, faults) ==
    \E m \in messages, r \in recents, b \in replies, fault \in faults :
      \E first \in {wrap_response(enabled, templates, user_settings, m, b, r, now, 1, TRUE)} :
        \E choice \in IF first.path = "reflected" THEN Choices(templates, user_settings) ELSE {1},
           metric_ok \in IF first.path = "reflected" THEN BOOLEAN ELSE {TRUE} :
          \E out \in {process_message(enabled, templates, user_settings, m, b, r, now, choice, metric_ok, fault)} :
            /\ user_settings' = out.row
            /\ call' = [NoCall EXCEPT !.op = "consider", !.path = out.path,
                                      !.upserts = out.upserts,
                                      !.reflected = (out.reply # b),
                                      !.metric = out.metric,
                                      !.raised = (out.path = "raised"),
                                      !.empty = IsEmpty(m), !.stop = HasStopWord(m),
                                      !.repeat = IsRepeat(m, r), !.short = IsShort(m),
                                      !.pause = PauseOf(user_settings, now),
                                      !.shorts = ShortsAfter(m, r)]
            /\ UNCHANGED <<processed_updates, deliveries, pending, now, enabled, templates, sparks, reminders, jobs, inbox>>

\* process_message as a whole: the LLM call with its retries and sleeps, then
\* either the companion call and store_conversation, or, when the LLM call
\* raised, the outer handler's fallback reply
ProcessMessage(messages, recents, failure_counts) ==
    \E m \in messages, r \in recents, failures \in failure_counts :
      \E llm \in {call_claude_with_tools(failures, 0, <<>>)} :
        /\ now + Slept(llm.waits) <= LlmHorizon
        /\ now' = now + Slept(llm.waits)
        /\ IF llm.raised
             THEN /\ user_settings' = user_settings
                  /\ call' = [NoCall EXCEPT !.op = "process_message", !.path = "llm_failed",
                                            !.status = FALLBACK_REPLY, !.raised = TRUE,
                                            !.failures = failures, !.attempts = llm.attempts,
                                            !.waits = llm.waits]
           ELSE \E first \in {wrap_response(enabled, templates, user_settings, m, llm.text, r, now', 1, TRUE)} :
                  \E choice \in IF first.path = "reflected" THEN Choices(templates, user_settings) ELSE {1},
                     metric_ok \in IF first.path = "reflected" THEN BOOLEAN ELSE {TRUE} :
                    \E out \in {process_message(enabled, templates, user_settings, m, llm.text, r, now', choice, metric_ok, "none")} :
                      /\ user_settings' = out.row
                      /\ call' = [NoCall EXCEPT !.op = "process_message", !.path = out.path,
                                                !.status = out.reply, !.upserts = out.upserts,
                                                !.reflected = (out.reply # llm.text),
                                                !.metric = out.metric,
                                                !.failures = failures, !.attempts = llm.attempts,
                                                !.waits = llm.waits, !.stored = TRUE]
        /\ UNCHANGED <<processed_updates, deliveries, pending, enabled, templates, sparks, reminders, jobs, inbox>>

\* a consider() call up to its settings upsert: it reads the settings, decides
\* and builds the settings object it is going to write; the upsert is the next
\* point at which another call of the same user can run
ConsiderRead(calls, messages, recents, replies) ==
    \E c \in calls, m \in messages, r \in recents, b \in replies :
      \E first \in {wrap_response(enabled, templates, user_settings, m, b, r, now, 1, TRUE)} :
        \E choice \in IF first.path = "reflected" THEN Choices(templates, user_settings) ELSE {1} :
          \E out \in {wrap_response(enabled, templates, user_settings, m, b, r, now, choice, TRUE)} :
            /\ enabled
            /\ pending[c] = Idle
            /\ pending' = [pending EXCEPT ![c] = [op |-> "consider",
                                                  read |-> user_settings, row |-> out.row,
                                                  reply |-> out.reply, path |-> out.path]]
            /\ call' = [NoCall EXCEPT !.op = "consider_read", !.path = out.path]
            /\ UNCHANGED <<processed_updates, deliveries, now, enabled, templates, sparks, user_settings, reminders, jobs, inbox>>

\* the settings upsert of a call in progress commits, and the call returns
ConsiderWrite(calls) ==
    \E c \in calls :
      /\ pending[c] # Idle
      /\ pending[c].op = "consider"
      /\ user_settings' = on_conflict_update(user_settings, pending[c].row)
      /\ pending' = [pending EXCEPT ![c] = Idle]
      /\ call' = [NoCall EXCEPT !.op = "consider_write", !.path = pending[c].path,
                                !.upserts = 1,
                                !.reflected = (pending[c].path = "reflected"),
                                !.written = pending[c].row,
                                !.replaced = user_settings,
                                !.stale = (pending[c].read # user_settings)]
      /\ UNCHANGED <<processed_updates, deliveries, now, enabled, templates, sparks, reminders, jobs, inbox>>

SetCompanionLevel(args) ==
    \E level \in args :
      \E out \in {set_companion_level(user_settings, level)} :
        /\ user_settings' = out.row
        /\ call' = [NoCall EXCEPT !.op = "set_companion_level", !.raised = out.raised,
                                  !.upserts = IF out.raised THEN 0 ELSE 1]
        /\ UNCHANGED <<processed_updates, deliveries, pending, now, enabled, templates, sparks, reminders, jobs, inbox>>

SetQuietHours(args) ==
    \E q \in args :
      \E out \in {set_quiet_hours(user_settings, q[1], q[2])} :
        /\ user_settings' = out.row
        /\ call' = [NoCall EXCEPT !.op = "set_quiet_hours", !.raised = out.raised,
                                  !.upserts = IF out.raised THEN 0 ELSE 1]
        /\ UNCHANGED <<processed_updates, deliveries, pending, now, enabled, templates, sparks, reminders, jobs, inbox>>

SetNudgeFrequency(args) ==
    \E frequency \in args :
      \E out \in {set_nudge_frequency(user_settings, frequency)} :
        /\ user_settings' = out.row
        /\ call' = [NoCall EXCEPT !.op = "set_nudge_frequency", !.raised = out.raised,
                                  !.upserts = IF out.raised THEN 0 ELSE 1]
        /\ UNCHANGED <<processed_updates, deliveries, pending, now, enabled, templates, sparks, reminders, jobs, inbox>>

\* scheduleNext(): one schedule_next_nudge call
ScheduleNext(faults, limit) ==
    \E topic \in Topics, fault \in faults :
      \E out \in {schedule_next_nudge(enabled, sparks, user_settings, reminders, jobs, now, topic, fault)} :
           /\ Len(out.table) <= limit
           /\ user_settings' = out.row
           /\ reminders' = out.table
           /\ jobs' = out.queue
           /\ call' = [NoCall EXCEPT !.op = "schedule_next_nudge", !.result = out.result,
                                     !.upserts = out.upserts, !.path = out.path]
           /\ UNCHANGED <<processed_updates, deliveries, pending, now, enabled, templates, sparks, inbox>>

\* POST /webhook up to await ptb.process_update: the duplicate check and the
\* mark run without a suspension point between them; a duplicate is answered
\* at once, anything else is dispatched to the handlers
Webhook(calls, ids) ==
    \E c \in calls, update_id \in ids :
      \E out \in {webhook(processed_updates, update_id, now)} :
        /\ pending[c] = Idle
        /\ deliveries[update_id].count < MaxDispatches
        /\ processed_updates' = out.cache
        /\ pending' = IF out.duplicate THEN pending
                      ELSE [pending EXCEPT ![c] = [op |-> "webhook", update_id |-> update_id]]
        /\ deliveries' =
             IF out.duplicate THEN deliveries
             ELSE [deliveries EXCEPT ![update_id] =
                     [first |-> IF @.first = NoTime THEN now ELSE @.first,
                      count |-> Counted(@.first, @.count, now),
                      run_first |-> IF @.run_count = 0 THEN now ELSE @.run_first,
                      run_count |-> IF @.run_count = 0 THEN 1
                                    ELSE Counted(@.run_first, @.run_count, now),
                      failed |-> @.failed]]
        /\ call' = [NoCall EXCEPT !.op = "webhook", !.result = update_id,
                                  !.path = IF out.duplicate THEN "duplicate" ELSE "dispatched",
                                  !.status = IF out.duplicate THEN <<"200">> ELSE <<>>]
        /\ UNCHANGED <<now, enabled, templates, sparks, user_settings, reminders, jobs, inbox>>

\* the handlers return or raise, and the request is answered: 200, or 500
\* from the except clause
WebhookDone(calls, outcomes) ==
    \E c \in calls, outcome \in outcomes :
      /\ pending[c] # Idle
      /\ pending[c].op = "webhook"
      /\ pending' = [pending EXCEPT ![c] = Idle]
      /\ deliveries' = [deliveries EXCEPT ![pending[c].update_id].failed =
                                             (@ \/ outcome = "failed")]
      /\ call' = [NoCall EXCEPT !.op = "webhook_done", !.result = pending[c].update_id,
                                !.path = outcome, !.raised = (outcome = "failed"),
                                !.status = IF outcome = "failed" THEN <<"500">> ELSE <<"200">>]
      /\ UNCHANGED <<now, enabled, templates, sparks, user_settings, reminders, jobs, inbox,
                     processed_updates>>

\* the user sends /mode without an argument: the handler reads the settings
\* and reports the level
ShowMode ==
    /\ call' = [NoCall EXCEPT !.op = "mode_status",
                              !.status = <<"Companion mode is ",
                                           get_user_settings(user_settings).companion_level,
                                           ". Use /mode off|light|standard to change.">>]
    /\ UNCHANGED <<processed_updates, deliveries, pending, now, enabled, templates, sparks, user_settings, reminders, jobs, inbox>>

\* the user sends /mode or /nudge with one argument
Command(names, args, faults) ==
    \E name \in names, arg \in args, topic \in Topics, fault \in faults :
      \E out \in {IF name = "mode_command"
                    THEN mode_command(enabled, sparks, user_settings, reminders, jobs,
                                      now, topic, fault, arg)
                  ELSE nudge_command(enabled, sparks, user_settings, reminders, jobs,
                                     now, topic, fault, arg)} :
           /\ Len(out.table) <= MaxReminders
           /\ user_settings' = out.row
           /\ reminders' = out.table
           /\ jobs' = out.queue
           /\ call' = [NoCall EXCEPT !.op = name, !.path = out.path,
                                     !.raised = (out.path = "raised"),
                                     !.result = out.result, !.status = out.reply]
           /\ UNCHANGED <<processed_updates, deliveries, pending, now, enabled, templates, sparks, inbox>>

\* a scheduleNext() call up to its hand-off: it has read the settings and the
\* clock; the hand-off is the next point at which another call can run
ScheduleRead(calls) ==
    \E c \in calls :
      /\ pending[c] = Idle
      /\ pending' = [pending EXCEPT ![c] = [op |-> "schedule_next_nudge",
                                            read |-> user_settings, t |-> now]]
      /\ call' = [NoCall EXCEPT !.op = "schedule_read"]
      /\ UNCHANGED <<processed_updates, deliveries, now, enabled, templates, sparks, user_settings, reminders, jobs, inbox>>

\* the rest of a scheduleNext() call in progress: the guards on the settings
\* it read, the hand-off, and the upsert of the settings object it read with
\* last_nudge_at assigned
ScheduleWrite(calls, faults, limit) ==
    \E c \in calls, topic \in Topics, fault \in faults :
      /\ pending[c] # Idle
      /\ pending[c].op = "schedule_next_nudge"
      /\ \E out \in {schedule_next_nudge(enabled, sparks, pending[c].read, reminders, jobs,
                                         pending[c].t, topic, fault)} :
           /\ Len(out.table) <= limit
           /\ user_settings' = IF out.upserts = 1
                                 THEN on_conflict_update(user_settings, out.row)
                               ELSE user_settings
           /\ reminders' = out.table
           /\ jobs' = out.queue
           /\ call' = [NoCall EXCEPT !.op = "schedule_write", !.result = out.result,
                                     !.upserts = out.upserts, !.path = out.path,
                                     !.stale = (pending[c].read # user_settings)]
      /\ pending' = [pending EXCEPT ![c] = Idle]
      /\ UNCHANGED <<processed_updates, deliveries, now, enabled, templates, sparks, inbox>>

\* the schedule_message tool: a reminder the user asked for, at the time
\* _parse_when made of the user's words, given as an offset from now
ScheduleMessage(offsets, faults) ==
    \E offset \in offsets, fault \in faults :
      \E out \in {schedule_reminder(reminders, jobs, "Reminder", now + offset, now, fault)} :
           /\ now + offset >= 0
           /\ Len(out.table) <= MaxReminders
           /\ reminders' = out.table
           /\ jobs' = out.queue
           /\ call' = [NoCall EXCEPT !.op = "schedule_message", !.result = now + offset,
                                     !.path = IF out.ok THEN "scheduled" ELSE "failed"]
           /\ UNCHANGED <<processed_updates, deliveries, pending, now, enabled, templates, sparks, user_settings, inbox>>

\* the worker runs a job that is due; the queue drops the job when the task
\* has returned or raised
SendReminder(faults) ==
    \E job \in jobs, fault \in faults :
      \E out \in {send_reminder(reminders, inbox, job.reminder_id, fault)} :
        /\ job.run_at <= now
        /\ reminders' = out.table
        /\ inbox' = out.inbox
        /\ jobs' = jobs \ {job}
        /\ call' = [NoCall EXCEPT !.op = "send_reminder", !.raised = out.raised,
                                  !.path = fault]
        /\ UNCHANGED <<processed_updates, deliveries, pending, now, enabled, templates, sparks, user_settings>>

----------------------------------------------------------------------------
(* Inputs *)

M_blank == Msg(TRUE, <<>>)
M_ok == Msg(FALSE, <<"ok">>)
M_OK == Msg(TRUE, <<"OK">>)
M_four == Msg(FALSE, <<"plan", "my", "next", "week">>)
M_five == Msg(FALSE, <<"Plan", "my", "gym", "next", "week">>)
M_stop == Msg(FALSE, <<"Stop!">>)
M_stopping == Msg(FALSE, <<"stopping", "by">>)
M_mute == Msg(TRUE, <<"please", "MUTE.", "these", "notes", "for", "now">>)

Messages == {M_blank, M_ok, M_OK, M_four, M_five, M_stop, M_stopping, M_mute}
Recents == {<<>>, <<M_ok>>, <<M_five>>}
BaseReplies == {<<>>, <<"hi", " ">>}
LevelArgs == {"off", "light", "standard", "OFF", "loud"}
FrequencyArgs == {"off", "weekly", "standard", "Weekly", "on"}
QuietArgs ==
    { <<<<22, 0>>, <<7, 0>>>>, <<<<8, 0>>, <<7, 0>>>>, <<<<9, 15>>, <<21, 45>>>>,
      <<<<0, 0>>, <<0, 0>>>>, <<<<24, 0>>, <<7, 0>>>>, <<<<22, 0>>, <<7, 60>>>> }
\* where the time a user asked for lies: a day ago, now, one tick or one second
\* or one hour ahead
WhenOffsets == {0 - Day, 0, 1, Sec, Hour}
CommandNames == {"mode_command", "nudge_command"}
CommandArgs == {"off", "light", "weekly", "on"}
CommandFaults == {"none", "store", "queue", "settings"}
Faults == {"none", "store", "queue"}
ConsiderFaults == {"none", "read", "write", "render"}

\* midnight of each day
Midnights == { d * Day : d \in 0..MaxDays }

\* the cards files with one template, rendering or not
OneTemplateFiles ==
    { [has_templates |-> TRUE, templates |-> Bank(1, k), has_sparks |-> FALSE, sparks |-> <<>>] :
        k \in {0, 1} }

----------------------------------------------------------------------------
(* Spec: every operation, over small inputs *)

Init == Construct(OneTemplateFiles)

Next ==
    \/ Restart(OneTemplateFiles)
    \/ Tick(Midnights)
    \/ Consider({M_ok, M_five, M_stop}, {<<>>}, {<<"hi", " ">>}, ConsiderFaults)
    \/ SetCompanionLevel({"off", "light"})
    \/ SetQuietHours({<<<<8, 0>>, <<7, 0>>>>})
    \/ SetNudgeFrequency({"off", "weekly"})
    \/ ScheduleNext({"none"}, MaxReminders)

Spec == Init /\ [][Next]_vars

(* SpecEngine: the Reflection Decision Engine over its full inputs *)

NextEngine ==
    \/ Restart(CardsFiles)
    \/ Tick(Instants)
    \/ Consider(Messages, Recents, {<<"hi", " ">>}, {"none"})
    \/ SetCompanionLevel(LevelArgs)

InitEngine == Construct(CardsFiles)

SpecEngine == InitEngine /\ [][NextEngine]_vars

(* SpecDelivery: nudges from the hand-off to the delivery by the worker *)

WorkerFaults == {"none", "channel", "storage"}

\* clock readings before and after the fire time of a nudge
DeliveryInstants == { d * Day + o : d \in {0, STANDARD_DAYS + 1, WEEKLY_DAYS + 1}, o \in {1} }

InitDelivery == Construct({NoCards})

NextDelivery ==
    \/ Restart({NoCards})
    \/ Tick(DeliveryInstants)
    \/ SetNudgeFrequency({"off", "weekly", "standard"})
    \/ SetQuietHours({<<<<8, 0>>, <<7, 0>>>>})
    \/ ScheduleNext(Faults, MaxReminders)
    \/ ScheduleMessage({0 - Day, Hour}, {"none"})
    \/ SendReminder(WorkerFaults)

SpecDelivery == InitDelivery /\ [][NextDelivery]_vars

(* SpecNudge: the Nudge Scheduler and the setters over their full inputs *)

\* clock readings before and after the shorter base interval
NudgeInstants == { d * Day + 1 : d \in {0, STANDARD_DAYS + 1} }

\* the cards files that configure sparks
SparkFiles ==
    { [has_templates |-> FALSE, templates |-> <<>>, has_sparks |-> TRUE, sparks |-> s] :
        s \in {<<>>, <<1, 0>>} }

InitNudge == Construct(SparkFiles)

NextNudge ==
    \/ Restart(SparkFiles)
    \/ Tick(NudgeInstants)
    \/ SetCompanionLevel({"off", "light"})
    \/ SetQuietHours(QuietArgs \ {<<<<0, 0>>, <<0, 0>>>>, <<<<22, 0>>, <<7, 60>>>>})
    \/ SetNudgeFrequency(FrequencyArgs)
    \/ ScheduleNext(Faults, MaxReminders)

SpecNudge == InitNudge /\ [][NextNudge]_vars

(* SpecCommand: the /mode and /nudge commands *)

InitCommand == Construct(SparkFiles)

NextCommand ==
    \/ Restart(SparkFiles)
    \/ Tick(NudgeInstants)
    \/ Command(CommandNames, CommandArgs, CommandFaults)

SpecCommand == InitCommand /\ [][NextCommand]_vars

(* SpecOverlap: consider() calls of one user that overlap *)

InitOverlap == Construct(OneTemplateFiles \cup {NoCards})

NextOverlap ==
    \/ Restart(OneTemplateFiles \cup {NoCards})
    \/ ConsiderRead(Calls, {M_ok}, {<<>>}, {<<"hi", " ">>})
    \/ ConsiderWrite(Calls)

SpecOverlap == InitOverlap /\ [][NextOverlap]_vars

(* SpecCap: scheduleNext() calls of a user who never changes the
   configuration, with a consider() call of the same user in progress *)

InitCap == Construct({NoCards})

NextCap ==
    \/ Restart({NoCards})
    \/ Tick(DeliveryInstants)
    \/ ConsiderRead({1}, {M_five}, {<<>>}, {<<"hi", " ">>})
    \/ ConsiderWrite({1})
    \/ ScheduleNext({"none"}, MaxReminders + 1)

SpecCap == InitCap /\ [][NextCap]_vars

(* SpecCards: the service constructed over the cards files an operator can
   leave behind *)

\* what json.load can make of a cards file
CardsFileContents ==
    { [has_templates |-> ht, templates |-> t, has_sparks |-> hs, sparks |-> s] :
        ht \in BOOLEAN, hs \in BOOLEAN, t \in {<<>>, Bank(1, 0)}, s \in {<<>>, <<1, 0>>} }
      \cup {NotAnObject}

\* the constructor returned
ServiceUp == ~enabled \/ templates # <<>>

InitCards == Construct({NoCards})

NextCards ==
    \/ Restart(CardsFileContents)
    \/ Tick(Instants)
    \/ ServiceUp /\ Consider({M_five}, {<<>>}, {<<"hi", " ">>}, {"none"})
    \/ ServiceUp /\ SetCompanionLevel({"off", "light"})
    \/ ServiceUp /\ ShowMode

SpecCards == InitCards /\ [][NextCards]_vars

(* SpecRace: scheduleNext() calls of one user that run concurrently, at one
   reading of the clock *)

InitRace == Construct({NoCards})

NextRace ==
    \/ Restart({NoCards})
    \/ SetNudgeFrequency({"off", "weekly"})
    \/ ScheduleRead(Calls)
    \/ ScheduleWrite(Calls, {"none"}, MaxReminders + 1)

SpecRace == InitRace /\ [][NextRace]_vars

(* SpecInFlight: setters and scheduleNext() while a consider() call of the
   same user is between its read and its write *)

InitInFlight == Construct({NoCards})

NextInFlight ==
    \/ Restart({NoCards})
    \/ ConsiderRead({1}, {M_ok, M_five}, {<<>>}, {<<"hi", " ">>})
    \/ ConsiderWrite({1})
    \/ SetCompanionLevel({"off", "light"})
    \/ SetQuietHours({<<<<8, 0>>, <<7, 0>>>>})
    \/ SetNudgeFrequency({"off", "weekly"})
    \/ ScheduleNext({"none"}, MaxReminders)

SpecInFlight == InitInFlight /\ [][NextInFlight]_vars

(* SpecWebhook: deliveries of updates to the webhook, handled concurrently *)

\* clock readings around the expiry of an update received at 0
WebhookInstants ==
    {1, CACHE_EXPIRY_SECONDS * Sec, CACHE_EXPIRY_SECONDS * Sec + 1}

InitWebhook == Construct({NoCards})

NextWebhook ==
    \/ Restart({NoCards})
    \/ Tick(WebhookInstants)
    \/ Webhook({1, 2}, {1, 2})
    \/ WebhookDone({1, 2}, {"ok", "failed"})

SpecWebhook == InitWebhook /\ [][NextWebhook]_vars

(* SpecAgent: messages handled one after another, the LLM call of each
   failing any number of times *)

InitAgent == Construct(OneTemplateFiles \cup {NoCards})

NextAgent ==
    \/ Restart(OneTemplateFiles \cup {NoCards})
    \/ SetCompanionLevel({"off", "light"})
    \/ ProcessMessage({M_ok, M_five}, {<<>>}, 0..CLAUDE_MAX_RETRIES)

SpecAgent == InitAgent /\ [][NextAgent]_vars

(* SpecRendering: consider() and setter calls, one after another, over a
   Template Bank whose templates all render *)

\* the cards files that leave the service with such a bank: none (the default
\* set) or a configured bank without a blank template
RenderingFiles ==
    {NoCards} \cup
    { [has_templates |-> TRUE, templates |-> Bank(n, 0), has_sparks |-> FALSE, sparks |-> <<>>] :
        n \in 1..MaxBank }

InitRendering == Construct(RenderingFiles)

NextRendering ==
    \/ Restart(RenderingFiles)
    \/ Tick(Instants)
    \/ Consider({M_blank, M_ok, M_four, M_five, M_stop}, {<<>>, <<M_ok>>}, {<<"hi", " ">>}, {"none", "write"})
    \/ SetCompanionLevel({"off", "light", "standard"})
    \/ SetQuietHours({<<<<8, 0>>, <<7, 0>>>>})
    \/ SetNudgeFrequency({"off", "weekly"})

SpecRendering == InitRendering /\ [][NextRendering]_vars

----------------------------------------------------------------------------
(* Claims *)

\* every result consider() can return in the current state for one message,
\* history and base reply
ConsiderOutcomes(m, r, b) ==
    LET first == wrap_response(enabled, templates, user_settings, m, b, r, now, 1, TRUE)
    IN  IF first.path # "reflected" THEN {first}
        ELSE { wrap_response(enabled, templates, user_settings, m, b, r, now, choice, metric_ok) :
                 choice \in Choices(templates, user_settings), metric_ok \in BOOLEAN }

\* every result scheduleNext() can return in the current state
ScheduleOutcomes ==
    { schedule_next_nudge(enabled, sparks, user_settings, reminders, jobs, now, topic, fault) :
        topic \in Topics, fault \in Faults }

\* the companion is on for the user
CompanionOn == enabled /\ LevelOf(user_settings) # "off"

\* C1: the third of three consecutive consider() calls with short eligible
\* messages, the first finding short_reply_streak = 0, shows no reflection and
\* leaves reflections_paused_until at now + 24 hours.
C1_ThirdShortPauses ==
    (call.op = "consider" /\ call.shorts = 3)
      => /\ ~call.reflected
         /\ PausedUntilOf(user_settings) = (now + PAUSE_HOURS * Hour) \div Sec

\* the time of day t lies in the quiet window from start to end, which wraps
\* past midnight when start is not before end
InQuietWindow(t, start, end) ==
    IF start < end THEN start <= t /\ t < end
    ELSE t >= start \/ t < end

\* C2: the timestamp scheduleNext() hands to the queue has a time of day
\* outside the user's quiet window (stated for the windows that leave part of
\* the day free, start # end).
C2_NudgeOutsideQuietHours ==
    (/\ call.op = "schedule_next_nudge"
     /\ call.upserts = 1
     /\ user_settings.quiet_hours_start # user_settings.quiet_hours_end)
      => ~InQuietWindow(call.result % Day,
                        parse_hhmm(user_settings.quiet_hours_start),
                        parse_hhmm(user_settings.quiet_hours_end))

C4_OffMeansNoOutreach ==
    /\ ~CompanionOn
         => \A m \in Messages, r \in Recents, b \in BaseReplies :
              \A out \in ConsiderOutcomes(m, r, b) : out.reply = b
    /\ (~CompanionOn \/ FrequencyOf(user_settings) = "off")
         => \A out \in ScheduleOutcomes :
              /\ out.result = NoTime
              /\ out.table = reminders
              /\ out.queue = jobs
              /\ NudgeAtOf(out.row) = NudgeAtOf(user_settings)

C4_Witness ==
    /\ call.op = "schedule_next_nudge"
    /\ enabled
    /\ LevelOf(user_settings) # "off"
    /\ FrequencyOf(user_settings) = "off"
    /\ NudgeAtOf(user_settings) # NoTime
    /\ call.result = NoTime
    /\ Len(reminders) = 1

\* the template the next reflection would be built from renders a line
NextRenders ==
    LET idx == next_template(templates, TemplateIdOf(user_settings))
    IN  idx # 0 /\ reflection_elements(templates[idx]) # <<>>

C6_PausedCallChangesNothing ==
    PauseOf(user_settings, now) = "active"
      => \A m \in Messages, r \in Recents, b \in BaseReplies :
           \A out \in ConsiderOutcomes(m, r, b) :
             /\ out.reply = b
             /\ StreakOf(out.row) = StreakOf(user_settings)
             /\ TemplateIdOf(out.row) = TemplateIdOf(user_settings)
             /\ ReflectionAtOf(out.row) = ReflectionAtOf(user_settings)
             /\ PausedUntilOf(out.row) = PausedUntilOf(user_settings)

C6_Witness ==
    /\ call.op = "consider"
    /\ CompanionOn
    /\ call.pause = "active"
    /\ ~call.empty /\ ~call.stop /\ ~call.repeat /\ ~call.short
    /\ NextRenders
    /\ ~call.reflected
    /\ PauseOf(user_settings, now) = "active"
    /\ now > 0

ClaimFollowing(bank, last) ==
    LET at == { i \in 1..Len(bank) : bank[i].id = last }
    IN  IF at = {} THEN bank[1].id
        ELSE LET i == CHOOSE j \in at : \A k \in at : j <= k
             IN  IF i = Len(bank) THEN bank[1].id ELSE bank[i + 1].id

\* the template ids of k reflections in a row, starting from the stored row
RECURSIVE RunOfReflections(_, _)
RunOfReflections(row, k) ==
    IF k = 0 THEN <<>>
    ELSE LET out == wrap_response(enabled, templates, row, M_five, <<"hi">>, <<>>, now, 1, TRUE)
         IN  IF out.path # "reflected" THEN <<>>
             ELSE <<TemplateIdOf(out.row)>> \o RunOfReflections(out.row, k - 1)

\* every template of the bank renders a line
AllRender == \A i \in 1..Len(templates) : reflection_elements(templates[i]) # <<>>

\* C8 as stated: no two consecutive reflections carry the same template id.
C8_NoConsecutiveRepeat ==
    [][(call'.op = "consider" /\ call'.reflected)
         => TemplateIdOf(user_settings') # TemplateIdOf(user_settings)]_vars

\* C8: every reflection uses the template following last_template_id in bank
\* order (the first when it is absent or unknown); in a bank of two or more
\* templates it never carries the id of the reflection before it, and where
\* every template renders, as many reflections in a row as the bank has
\* templates use every id once.
C8_RotationInBankOrder ==
    /\ \A m \in Messages, r \in Recents, b \in {<<"hi", " ">>} :
         \A out \in ConsiderOutcomes(m, r, b) :
           out.reply # b
             => /\ TemplateIdOf(out.row) = ClaimFollowing(templates, TemplateIdOf(user_settings))
                /\ Len(templates) >= 2
                     => TemplateIdOf(out.row) # TemplateIdOf(user_settings)
    /\ (CompanionOn /\ PauseOf(user_settings, now) # "active" /\ AllRender)
         => LET ids == RunOfReflections(user_settings, Len(templates))
            IN  /\ Len(ids) = Len(templates)
                /\ { ids[i] : i \in 1..Len(ids) } = { templates[i].id : i \in 1..Len(templates) }

C8_Witness ==
    /\ call.op = "consider"
    /\ call.reflected
    /\ Len(templates) = 3
    /\ TemplateIdOf(user_settings) = "momentum"

\* C9 as stated: after a consider() call in which a message of 5 tokens or
\* more arrives, or a reflection is shown, short_reply_streak is 0.
C9_StreakZeroAfterLongMessage ==
    (call.op = "consider" /\ CompanionOn /\ (~call.short \/ call.reflected))
      => StreakOf(user_settings) = 0

\* C9: every consider() call that shows a reflection, and every call in which
\* a message of 5 tokens or more gets as far as the throttle step (companion
\* on, message eligible, no active pause), leaves short_reply_streak at 0.
C9_StreakZeroWhenCounted ==
    \A m \in Messages, r \in Recents, b \in {<<"hi", " ">>} :
      \A out \in ConsiderOutcomes(m, r, b) :
        /\ out.reply # b => StreakOf(out.row) = 0
        /\ (/\ CompanionOn
            /\ PauseOf(user_settings, now) # "active"
            /\ IsEligible(m, r)
            /\ ~IsShort(m))
             => StreakOf(out.row) = 0

C9_Witness ==
    /\ call.op = "consider"
    /\ CompanionOn
    /\ call.pause = "passed"
    /\ ~call.empty /\ ~call.stop /\ ~call.repeat /\ ~call.short
    /\ ~call.reflected
    /\ StreakOf(user_settings) = 0
    /\ PausedUntilOf(user_settings) # NoTime

\* C10: once reflections_paused_until is set every operation keeps it set,
\* except the consider() call that shows a reflection, which clears it.
C10_PauseStaysUntilReflection ==
    [][PausedUntilOf(user_settings) # NoTime
         => IF call'.op = "consider" /\ call'.reflected
              THEN PausedUntilOf(user_settings') = NoTime
              ELSE PausedUntilOf(user_settings') # NoTime]_vars

C10_Witness ==
    /\ call.op = "consider"
    /\ call.reflected
    /\ call.pause = "passed"
    /\ PausedUntilOf(user_settings) = NoTime
    /\ user_settings.quiet_hours_start = <<8, 0>>

\* nudges are on for the user
NudgesOn == CompanionOn /\ FrequencyOf(user_settings) # "off"

\* C11: a scheduleNext() call made while the timestamp of an earlier call is
\* still in the future returns that same timestamp and stores and enqueues
\* nothing more; the timestamp a call returns is the one it left in
\* last_nudge_at.
C11_SecondCallReturnsPending ==
    /\ (call.op = "schedule_next_nudge" /\ call.result # NoTime)
         => NudgeAtOf(user_settings) * Sec = call.result
    /\ (NudgesOn /\ NudgeAtOf(user_settings) # NoTime /\ NudgeAtOf(user_settings) * Sec > now)
         => \A out \in ScheduleOutcomes :
              /\ out.result = NudgeAtOf(user_settings) * Sec
              /\ out.table = reminders
              /\ out.queue = jobs
              /\ out.row = user_settings

C11_Witness ==
    /\ call.op = "schedule_next_nudge"
    /\ call.upserts = 0
    /\ call.result # NoTime
    /\ call.result > now
    /\ now > 0
    /\ Len(reminders) = 1
    /\ Cardinality(jobs) = 1

\* C12: a scheduleNext() call whose hand-off to the queue fails (the reminder
\* cannot be stored, or the queue cannot be reached or rejects the job) returns
\* none and leaves the settings record as it was; the record changes only in a
\* call whose hand-off put a job into the queue.
C12_FailedHandoffKeepsSettings ==
    \A topic \in Topics, fault \in Faults :
      LET out == schedule_next_nudge(enabled, sparks, user_settings, reminders, jobs, now, topic, fault)
      IN  /\ out.path = "rejected" => (out.result = NoTime /\ out.row = user_settings)
          /\ fault # "none" => out.row = user_settings
          /\ out.row # user_settings => (out.queue # jobs /\ out.result # NoTime)

C12_Witness ==
    /\ call.op = "schedule_next_nudge"
    /\ call.path = "rejected"
    /\ call.result = NoTime
    /\ NudgeAtOf(user_settings) # NoTime
    /\ NudgeAtOf(user_settings) * Sec <= now

\* C13: a scheduleNext() call that aborts because the hand-off failed leaves
\* the reminders table as it was.
C13_FailedHandoffStoresNothing ==
    [][(call'.op = "schedule_next_nudge" /\ call'.path = "rejected")
         => reminders' = reminders]_vars

\* C14: a message the queue accepted and whose job has run has reached the
\* recipient, or a job for it is still in the queue.
C14_AcceptedIsDelivered ==
    \A i \in 1..Len(reminders) :
      (reminders[i].delivered /\ i \notin inbox)
        => \E job \in jobs : job.reminder_id = i

\* C15: a consider() call in which a step fails (the settings cannot be read
\* or written, or building the reflection raises) hands the user exactly the
\* base reply and stores nothing.
C15_FailureLeavesBaseReply ==
    [][(call'.op = "consider" /\ call'.raised)
         => (~call'.reflected /\ user_settings' = user_settings)]_vars

C15_Witness ==
    /\ call.op = "consider"
    /\ call.raised
    /\ ~call.reflected
    /\ CompanionOn
    /\ ~call.empty /\ ~call.stop /\ ~call.repeat /\ ~call.short
    /\ call.pause # "active"
    /\ NextRenders

\* C16: after a consider() call that showed a reflection to a user whose
\* companion and nudges are on, a nudge is scheduled: last_nudge_at holds a
\* time in the future and a job is in the queue.
C16_ReflectionSchedulesNudge ==
    (call.op = "consider" /\ call.reflected /\ NudgesOn)
      => /\ NudgeAtOf(user_settings) # NoTime
         /\ NudgeAtOf(user_settings) * Sec > now
         /\ jobs # {}

\* the ids of the templates one of whose lines ends the reply
UsedIds(reply) ==
    { templates[i].id : i \in { j \in 1..Len(templates) :
          /\ reply # <<>>
          /\ reply[Len(reply)] # ""
          /\ reply[Len(reply)] \in {templates[j].question, templates[j].stretch} } }

\* C17 as stated: after a reflection the persisted last_reflection_at is now.
C17_ReflectionAtIsNow ==
    (call.op = "consider" /\ call.reflected)
      => ReflectionAtOf(user_settings) * Sec = now

\* C17: every reflection leaves persisted last_reflection_at = now cut to
\* whole seconds, last_template_id = the id of the template whose line was
\* appended, reflections_paused_until absent and short_reply_streak = 0; with
\* no prior last_template_id that template is the bank's first.
C17_ReflectionIsRecorded ==
    \A m \in Messages, r \in Recents, b \in {<<"hi", " ">>} :
      \A out \in ConsiderOutcomes(m, r, b) :
        out.reply # b
          => /\ ReflectionAtOf(out.row) = now \div Sec
             /\ UsedIds(out.reply) = {TemplateIdOf(out.row)}
             /\ PausedUntilOf(out.row) = NoTime
             /\ StreakOf(out.row) = 0
             /\ TemplateIdOf(user_settings) = None => TemplateIdOf(out.row) = templates[1].id

C17_Witness ==
    /\ call.op = "consider"
    /\ call.reflected
    /\ call.short
    /\ call.pause = "passed"
    /\ now % Sec # 0
    /\ ReflectionAtOf(user_settings) = now \div Sec
    /\ PausedUntilOf(user_settings) = NoTime
    /\ StreakOf(user_settings) = 0

\* base replies with and without text and trailing whitespace
MergeReplies == {<<>>, <<" ">>, <<"hi">>, <<" ", "hi", "\n", " ">>}

\* the base reply without the whitespace at its end
ClaimTrim(b) ==
    LET keep == { n \in 0..Len(b) : n = 0 \/ b[n] \notin {" ", "\n"} }
        n == CHOOSE k \in keep : \A j \in keep : j <= k
    IN  SubSeq(b, 1, n)

\* the lines the template selected for the next reflection renders
SelectedLines ==
    LET id == ClaimFollowing(templates, TemplateIdOf(user_settings))
    IN  UNION { {templates[i].question, templates[i].stretch} \ {""} :
                  i \in { j \in 1..Len(templates) : templates[j].id = id } }

\* C18: a consider() call that does not suppress returns the right-trimmed
\* base reply, a newline and one line of the selected template, or that line
\* alone when the base reply is empty or whitespace; every other call returns
\* the base reply unchanged.
C18_ReplyIsBasePlusOneLine ==
    \A m \in Messages, r \in {<<>>, <<M_five>>}, b \in MergeReplies :
      \A out \in ConsiderOutcomes(m, r, b) :
        IF out.path = "reflected"
          THEN \E line \in SelectedLines :
                 out.reply = IF ClaimTrim(b) = <<>> THEN <<line>>
                             ELSE ClaimTrim(b) \o <<"\n", line>>
          ELSE out.reply = b

C18_Witness ==
    /\ call.op = "consider"
    /\ call.reflected
    /\ call.metric = "tension"
    /\ Len(templates) = 3

\* C19: a message that, trimmed and case-folded, equals the user message
\* before it in the history is never answered with a reflection and changes
\* neither short_reply_streak nor last_template_id.
C19_RepeatSuppresses ==
    \A m \in Messages, r \in Recents :
      IsRepeat(m, r)
        => \A b \in BaseReplies :
             \A out \in ConsiderOutcomes(m, r, b) :
               /\ out.reply = b
               /\ StreakOf(out.row) = StreakOf(user_settings)
               /\ TemplateIdOf(out.row) = TemplateIdOf(user_settings)

C19_Witness ==
    /\ call.op = "consider"
    /\ CompanionOn
    /\ call.repeat /\ ~call.stop /\ ~call.short
    /\ call.pause # "active"
    /\ NextRenders
    /\ StreakOf(user_settings) = 1
    /\ ~call.reflected

\* the setters' arguments that are no value of the setting
Unrecognized == {"loud", "on"}

\* the value a recognized argument stands for
Meant(v) == IF v = "OFF" THEN "off" ELSE IF v = "Weekly" THEN "weekly" ELSE v

\* hours 00-23 and minutes 00-59
IsClockTime(v) == v[1] >= 0 /\ v[1] < 24 /\ v[2] >= 0 /\ v[2] < 60

\* C20: each setter called with an unrecognized or unparseable value raises
\* and leaves the stored settings (and whether a row exists) as they were;
\* called with a valid value it does not raise and the stored row holds the
\* new value.
C20_SettersValidateThenPersist ==
    /\ \A level \in LevelArgs :
         LET out == set_companion_level(user_settings, level)
         IN  IF level \in Unrecognized
               THEN out.raised /\ out.row = user_settings
             ELSE ~out.raised /\ out.row # NoRow /\ LevelOf(out.row) = Meant(level)
    /\ \A frequency \in FrequencyArgs :
         LET out == set_nudge_frequency(user_settings, frequency)
         IN  IF frequency \in Unrecognized
               THEN out.raised /\ out.row = user_settings
             ELSE ~out.raised /\ out.row # NoRow /\ FrequencyOf(out.row) = Meant(frequency)
    /\ \A q \in QuietArgs :
         LET out == set_quiet_hours(user_settings, q[1], q[2])
         IN  IF ~IsClockTime(q[1]) \/ ~IsClockTime(q[2])
               THEN out.raised /\ out.row = user_settings
             ELSE /\ ~out.raised
                  /\ out.row # NoRow
                  /\ out.row.quiet_hours_start = q[1]
                  /\ out.row.quiet_hours_end = q[2]

C20_Witness ==
    /\ call.op = "set_quiet_hours"
    /\ call.raised
    /\ user_settings # NoRow
    /\ user_settings.quiet_hours_start = <<9, 15>>
    /\ FrequencyOf(user_settings) = "standard"

\* C21: after set_quiet_hours(start, end) with two valid HH:MM values, the
\* settings read back carry exactly those two values, and every other field
\* reads as it read before the call.
C21_QuietHoursReadBack ==
    \A q \in QuietArgs :
      \E out \in {set_quiet_hours(user_settings, q[1], q[2])} :
        (validate_hhmm(q[1]) /\ validate_hhmm(q[2])) =>
          /\ ~out.raised
          /\ get_user_settings(out.row) =
               [get_user_settings(user_settings) EXCEPT !.quiet_hours_start = q[1],
                                                        !.quiet_hours_end = q[2]]

\* quiet hours were set for a user who has a nudge on record and a frequency
\* of their own
C21_Witness ==
    /\ call.op = "set_quiet_hours"
    /\ ~call.raised
    /\ user_settings # NoRow
    /\ user_settings.quiet_hours_start = <<9, 15>>
    /\ user_settings.quiet_hours_end = <<21, 45>>
    /\ user_settings.last_nudge_at # NoTime
    /\ user_settings.nudge_frequency = "standard"

\* clock times as the user writes them, and their order on the dial
ClockTimes == { <<h, m>> : h \in {0, 7, 8, 21, 22, 23}, m \in {0, 30} }
Earlier(a, b) == a[1] < b[1] \/ (a[1] = b[1] /\ a[2] < b[2])

\* the windows a user can have: the valid arguments and the stored one
ValidWindows ==
    { q \in QuietArgs : validate_hhmm(q[1]) /\ validate_hhmm(q[2]) }
      \cup {<<get_user_settings(user_settings).quiet_hours_start,
               get_user_settings(user_settings).quiet_hours_end>>}

\* C22: membership in the quiet window is wrap-aware: with start before end a
\* time is quiet iff start <= t < end; otherwise it is quiet iff t >= start or
\* t < end.  For 22:00-07:00, 23:30 is quiet and 08:00 is not.
C22_QuietWindowWraps ==
    /\ \A q \in ValidWindows, t \in ClockTimes :
         LET quiet == is_quiet_time(parse_hhmm(t), parse_hhmm(q[1]), parse_hhmm(q[2]))
         IN  IF Earlier(q[1], q[2])
               THEN quiet <=> (~Earlier(t, q[1]) /\ Earlier(t, q[2]))
             ELSE quiet <=> (~Earlier(t, q[1]) \/ Earlier(t, q[2]))
    /\ is_quiet_time(parse_hhmm(<<23, 30>>), parse_hhmm(<<22, 0>>), parse_hhmm(<<7, 0>>))
    /\ ~is_quiet_time(parse_hhmm(<<8, 0>>), parse_hhmm(<<22, 0>>), parse_hhmm(<<7, 0>>))

\* a nudge was placed at 08:00 for a user whose window is 22:00-07:00
C22_Witness ==
    /\ call.op = "schedule_next_nudge"
    /\ call.path = "scheduled"
    /\ user_settings.quiet_hours_start = <<22, 0>>
    /\ user_settings.quiet_hours_end = <<7, 0>>
    /\ call.result % Day = 8 * Hour

\* C23: when the metric insert fails after a reflection was built, consider()
\* still returns the merged reply and the settings of the success path stay
\* persisted; the failure is not raised.
C23_MetricFailureIsSwallowed ==
    \A m \in {M_ok, M_five}, b \in {<<"hi", " ">>}, choice \in Choices(templates, user_settings) :
      \E ok \in {process_message(enabled, templates, user_settings, m, b, <<>>, now, choice, TRUE, "none")},
         failed \in {process_message(enabled, templates, user_settings, m, b, <<>>, now, choice, FALSE, "none")} :
        ok.path = "reflected" =>
          /\ failed.path = "reflected"
          /\ failed.metric = None
          /\ failed.reply = ok.reply
          /\ failed.reply # b
          /\ failed.row = ok.row
          /\ failed.row.last_reflection_at = now \div Sec
          /\ failed.upserts = 1

\* a consider() call has shown a reflection although its metric insert failed
C23_Witness ==
    /\ call.op = "consider"
    /\ call.path = "reflected"
    /\ call.reflected
    /\ call.metric = None
    /\ ~call.raised
    /\ ReflectionAtOf(user_settings) = now \div Sec

\* C24 as stated: every consider() call that completes performs exactly one
\* settings upsert, and a metric row is inserted iff a reflection was appended
\* to the reply.
C24_OneUpsertAndMetricIffReflected ==
    (call.op = "consider" /\ ~call.raised)
      => /\ call.upserts = 1
         /\ (call.metric # None) <=> call.reflected

\* C24: a consider() call that completes performs exactly one settings upsert
\* when the companion is enabled and none when it is disabled by
\* configuration; the metric insert is reached iff a reflection was appended
\* to the reply, a metric row exists only for a call that wrote its settings,
\* and a call whose settings upsert failed inserts no metric.
C24_OneUpsertThenMetric ==
    (call.op = "consider")
      => /\ ~call.raised => call.upserts = (IF enabled THEN 1 ELSE 0)
         /\ call.reflected <=> (call.path = "reflected")
         /\ (call.metric # None) => (call.reflected /\ call.upserts = 1)
         /\ call.raised => (call.metric = None /\ call.upserts = 0)

\* a consider() call has written the settings once and inserted its metric
C24_Witness ==
    /\ call.op = "consider"
    /\ call.reflected
    /\ call.upserts = 1
    /\ call.metric # None

\* C25: the delay handed to the queue is at least 0.5 s: a fire time less than
\* 0.5 s ahead of now, or in the past, is deferred by a positive floor; a fire
\* time further ahead is kept.
C25_DelayFloor ==
    \A offset \in WhenOffsets \cup {NudgeAtOf(user_settings) * Sec - now} :
      \E out \in {schedule_reminder(reminders, jobs, "Reminder", now + offset, now, "none")} :
        /\ out.ok
        /\ \E job \in out.queue \ jobs :
             /\ job.reminder_id = Len(out.table)
             /\ 2 * (job.run_at - now) >= Sec
             /\ (2 * offset >= Sec) => (job.run_at = now + offset)

\* a reminder asked for a time in the past is in the queue, due one second
\* after it was handed over
C25_Witness ==
    /\ call.op = "schedule_message"
    /\ call.path = "scheduled"
    /\ call.result < now
    /\ \E job \in jobs :
         /\ reminders[job.reminder_id].scheduled_time = call.result
         /\ job.run_at = now + Sec

\* what a status reply says beyond confirming the setting and announcing the
\* queued spark
SaysMore(reply) ==
    \E i \in 1..Len(reply) :
      reply[i] \notin {"Companion mode set to ", "Nudges set to ", ".",
                       " Next spark queued for ", "%a %H:%M UTC"}
                        \cup LEVELS \cup FREQUENCIES

\* C26: when a /mode or /nudge command has set a value other than off and the
\* scheduling of the nudge fails (scheduleNext returns none, or storage or
\* the queue fail), the user receives a status reply, and the reply states
\* that no outreach was scheduled.
C26_FailedSchedulingIsReported ==
    (call.op \in CommandNames /\ call.path \in {"silent", "raised"})
      => (call.status # <<>> /\ SaysMore(call.status))

\* C27: when consider() calls of one user overlap, the record persisted after
\* a call's upsert committed equals, field for field, the record that call
\* wrote, whatever the other calls wrote before it; once all calls have
\* returned the stored record is the last committer's, and the next
\* invocation reads exactly that record.
C27_LastWriterWins ==
    (call.op = "consider_write")
      => /\ user_settings = call.written
         /\ get_user_settings(user_settings) = get_user_settings(call.written)
         /\ \A c \in Calls : pending[c] # Idle => pending[c].row # NoRow

\* calls overlapped: the last to commit had read the settings before another
\* call's commit, all have returned, and the streak it wrote replaced a
\* different one
C27_Witness ==
    /\ call.op = "consider_write"
    /\ call.stale
    /\ \A c \in Calls : pending[c] = Idle
    /\ call.replaced # NoRow
    /\ call.replaced.short_reply_streak = 2
    /\ user_settings.short_reply_streak = 1

\* quiet windows from the usual one to the whole day: 22:00-07:00, a window of
\* 23 hours, one of 23 and a half, start = end, and a daytime window
LoopWindows ==
    { <<<<22, 0>>, <<7, 0>>>>, <<<<8, 0>>, <<7, 0>>>>, <<<<0, 0>>, <<23, 30>>>>,
      <<<<0, 0>>, <<0, 0>>>>, <<<<9, 15>>, <<21, 45>>>> }

\* the candidate the loop starts from: the day of now + base, at the end of the
\* quiet window plus one hour
FirstCandidate(frequency, end, t) ==
    LET base == IF frequency = "standard" THEN 3 * Day ELSE 7 * Day
    IN  ((t + base) \div Day) * Day + end[1] * Hour + end[2] * Minute + Hour

\* C28: the computation of the next nudge time terminates for every quiet
\* window, start = end and windows of 23 hours and more included: it returns
\* the first candidate if that one is acceptable, and otherwise steps by one
\* hour, stops once the candidate lies more than 2 days after now and returns
\* the candidate it has reached.
C28_LoopTerminates ==
    \A q \in LoopWindows, frequency \in {"weekly", "standard"} :
      LET settings == [get_user_settings(user_settings) EXCEPT
                         !.nudge_frequency = frequency,
                         !.quiet_hours_start = q[1], !.quiet_hours_end = q[2]]
          first == FirstCandidate(frequency, q[2], now)
          acceptable == /\ first > now + Minute
                        /\ ~InQuietWindow(first % Day, parse_hhmm(q[1]), parse_hhmm(q[2]))
      IN  \E result \in {compute_next_nudge_time(settings, now)} :
            /\ result \in {first, first + Hour}
            /\ (result = first) <=> acceptable
            /\ (result # first) => (result - now > 2 * Day)

\* a nudge was scheduled for a user whose window leaves only 07:00-08:00 free:
\* the loop stepped from 08:00 to 09:00 and stopped there
C28_Witness ==
    /\ call.op = "schedule_next_nudge"
    /\ call.path = "scheduled"
    /\ user_settings.quiet_hours_start = <<8, 0>>
    /\ user_settings.quiet_hours_end = <<7, 0>>
    /\ call.result % Day = 9 * Hour

\* how far into the day, from the clock's reading, a call can come: at once,
\* half a day and a tick later, a tick before the next midnight
CallOffsets == {0, 12 * Hour + 1, Day - 2}

\* C29: the timestamp of a fresh scheduleNext() is a whole minute, strictly
\* later than now + 1 minute, not earlier than now + base - 1 day and not later
\* than now + base + 1 day + 2 hours (base: 7 days weekly, 3 days standard).
C29_NudgeTimeBounds ==
    \A q \in LoopWindows \cup {<<<<0, 0>>, <<23, 59>>>>},
       frequency \in {"weekly", "standard"}, offset \in CallOffsets :
      LET t == now + offset
          base == IF frequency = "standard" THEN 3 * Day ELSE 7 * Day
          settings == [get_user_settings(user_settings) EXCEPT
                         !.nudge_frequency = frequency,
                         !.quiet_hours_start = q[1], !.quiet_hours_end = q[2]]
      IN  \E result \in {compute_next_nudge_time(settings, t)} :
            /\ result % Minute = 0
            /\ result > t + Minute
            /\ result >= t + base - Day
            /\ result <= t + base + Day + 2 * Hour

\* a nudge was scheduled at a moment that is not a whole minute, and its
\* timestamp is one
C29_Witness ==
    /\ call.op = "schedule_next_nudge"
    /\ call.path = "scheduled"
    /\ now % Minute # 0
    /\ call.result % Minute = 0
    /\ call.result > now + Minute
    /\ FrequencyOf(user_settings) = "standard"

\* the fire time of the message a job delivers
FireTime(job) == reminders[job.reminder_id].scheduled_time

\* C30: for a user whose configuration does not change, the fire times of any
\* two nudges enqueued by scheduleNext() calls that follow one another are at
\* least the base interval apart: 7 days for weekly, 3 days for standard.
C30_NudgesBaseIntervalApart ==
    \A first \in jobs, second \in jobs :
      (first.reminder_id < second.reminder_id)
        => FireTime(second) - FireTime(first) >=
             (IF FrequencyOf(user_settings) = "standard" THEN 3 ELSE 7) * Day

\* C31: constructing the service never fails, whatever the cards file holds,
\* and each section the file does not provide (file missing, unreadable or
\* malformed, key missing, collection empty) holds the built-in default.
C31_ConstructionNeverFails ==
    (call.op = "restart")
      => /\ ~call.raised
         /\ enabled => (templates # <<>> /\ sparks # <<>>)

\* C32 as stated: reading the settings of a user with no stored record
\* creates the record in the store.
C32_ReadCreatesRecord ==
    (call.op = "mode_status") => (user_settings # NoRow)

\* C32: reading the settings of a user with no stored record returns the
\* documented defaults (level light, frequency weekly, quiet hours 22:00 to
\* 07:00, streak 0, the timestamps and last_template_id absent) and leaves the
\* store without a record; the record appears with the first operation that
\* upserts the settings.
C32_DefaultsWithoutRecord ==
    [][/\ (call'.op = "mode_status" /\ user_settings = NoRow)
           => /\ user_settings' = NoRow
              /\ call'.status[2] = "light"
              /\ get_user_settings(user_settings) =
                   [companion_level |-> "light", nudge_frequency |-> "weekly",
                    quiet_hours_start |-> <<22, 0>>, quiet_hours_end |-> <<7, 0>>,
                    last_reflection_at |-> NoTime, short_reply_streak |-> 0,
                    reflections_paused_until |-> NoTime, last_template_id |-> None,
                    last_nudge_at |-> NoTime]
       /\ (user_settings = NoRow /\ user_settings' # NoRow) => (call'.upserts = 1)]_vars

\* the level was read for a user who still has no record, after the clock
\* has moved
C32_Witness ==
    /\ call.op = "mode_status"
    /\ user_settings = NoRow
    /\ now > 0

\* C33: when scheduleNext() calls of one user run concurrently, at most one
\* nudge is enqueued.
C33_NoDoubleSchedule ==
    Cardinality(jobs) <= 1

\* C34: concurrent operations on one user race only on short_reply_streak and
\* last_template_id: the companion_level, nudge_frequency, quiet hours and
\* last_nudge_at that are stored when the upsert of a consider() call commits
\* are still the stored values after it.
C34_OnlyStreakAndTemplateRace ==
    (call.op = "consider_write")
      => /\ LevelOf(user_settings) = LevelOf(call.replaced)
         /\ FrequencyOf(user_settings) = FrequencyOf(call.replaced)
         /\ get_user_settings(user_settings).quiet_hours_start =
              get_user_settings(call.replaced).quiet_hours_start
         /\ get_user_settings(user_settings).quiet_hours_end =
              get_user_settings(call.replaced).quiet_hours_end
         /\ NudgeAtOf(user_settings) = NudgeAtOf(call.replaced)

\* the job delivers a nudge (a spark), not a reminder the user asked for
IsNudge(job) == reminders[job.reminder_id].message # "Reminder"

\* C35: in every reachable state in which the user's companion_level is off
\* or nudge_frequency is off, no nudge for that user is pending in the
\* delivery queue.
C35_NoNudgePendingWhenOff ==
    (LevelOf(user_settings) = "off" \/ FrequencyOf(user_settings) = "off")
      => ~\E job \in jobs : IsNudge(job)

\* C36: the worker marks a reminder delivered, and its task returns
\* 'delivered successfully', only if the message went out through the
\* delivery channel; a reminder whose send failed stays undelivered in storage.
C36_DeliveredOnlyIfSent ==
    /\ \A i \in 1..Len(reminders) : reminders[i].delivered => i \in inbox
    /\ (call.op = "send_reminder" /\ ~call.raised) => call.path # "channel"

\* C37 as stated: within 3600 seconds of its first receipt an update_id is
\* dispatched to the handlers at most once.
C37_DispatchedOncePerWindow ==
    \A u \in UpdateIds : deliveries[u].count <= 1

\* C37: as long as the process is not restarted, an update_id is dispatched to
\* the handlers at most once within 3600 seconds of its first receipt by that
\* process, also when two deliveries are handled concurrently and when the
\* processing of the first failed; a duplicate is answered with 200 and is not
\* processed.
C37_DispatchedOncePerRun ==
    [][/\ \A u \in UpdateIds : deliveries'[u].run_count <= 1
       /\ (call'.op = "webhook" /\ call'.path = "duplicate")
            => /\ call'.status = <<"200">>
               /\ deliveries' = deliveries
               /\ pending' = pending]_vars

\* a delivery was answered as a duplicate after the processing of the first
\* delivery of that update had failed, while another delivery was being
\* handled
C37_Witness ==
    /\ call.op = "webhook"
    /\ call.path = "duplicate"
    /\ deliveries[call.result].failed
    /\ deliveries[call.result].run_count = 1
    /\ \E c \in Calls : pending[c] # Idle

\* C38: the LLM call of one message is attempted at most CLAUDE_MAX_RETRIES
\* times; failed attempt k (counted from 0) that is not the last is followed by
\* a sleep of CLAUDE_BASE_DELAY * 2^k seconds and one more attempt; when the
\* last attempt fails the call raises, and process_message answers with the
\* fixed fallback reply, stores no conversation and leaves the companion
\* uncalled (no settings write, no reflection, no metric).
C38_RetriesThenFallback ==
    [][call'.op = "process_message" =>
         /\ call'.attempts <= CLAUDE_MAX_RETRIES
         /\ call'.attempts = IF call'.failures < CLAUDE_MAX_RETRIES
                               THEN call'.failures + 1 ELSE CLAUDE_MAX_RETRIES
         /\ Len(call'.waits) = call'.attempts - 1
         /\ \A k \in 1..Len(call'.waits) :
              call'.waits[k] = CLAUDE_BASE_DELAY * Sec * (2 ^ (k - 1))
         /\ now' = now + Slept(call'.waits)
         /\ call'.failures >= CLAUDE_MAX_RETRIES =>
              /\ call'.raised
              /\ call'.status = FALLBACK_REPLY
              /\ ~call'.stored
              /\ call'.upserts = 0 /\ ~call'.reflected /\ call'.metric = None
              /\ user_settings' = user_settings
         /\ call'.failures < CLAUDE_MAX_RETRIES =>
              ~call'.raised /\ call'.stored]_vars

\* a message whose three attempts all failed, after sleeps of one and two
\* seconds, for a user the companion would have reflected on
C38_Witness ==
    /\ call.op = "process_message"
    /\ call.failures = CLAUDE_MAX_RETRIES
    /\ call.attempts = CLAUDE_MAX_RETRIES
    /\ call.waits = <<Sec, 2 * Sec>>
    /\ call.status = FALLBACK_REPLY
    /\ enabled /\ AllRender /\ templates # <<>>

\* C39: over a Template Bank whose templates all render a line, starting
\* from a user without a record and whatever consider() and setter calls are
\* handled one after another, every settings record in the store has
\* short_reply_streak = 0 and no reflections_paused_until.
C39_NoStreakNoPause ==
    user_settings # NoRow =>
      /\ user_settings.short_reply_streak = 0
      /\ user_settings.reflections_paused_until = to_iso(NoTime)
      /\ get_user_settings(user_settings).reflections_paused_until = NoTime

\* the third short message in a row was reflected on and its record written
C39_Witness ==
    /\ call.op = "consider"
    /\ call.short /\ call.shorts = STREAK_LIMIT
    /\ call.reflected
    /\ call.upserts = 1
    /\ AllRender
    /\ user_settings # NoRow

\* a guard that comes before the throttle step stops the call: the user's
\* level is off, the message is empty, it holds a stop word, a pause is
\* active, or it repeats the last message
StoppedEarly(m, r) ==
    \/ LevelOf(user_settings) = "off"
    \/ IsEmpty(m)
    \/ HasStopWord(m)
    \/ PauseOf(user_settings, now) = "active"
    \/ IsRepeat(m, r)

====
